---- MODULE Spec2Model ----
(***************************************************************************)
(* typed-sled: a typed key-value layer over the byte-oriented sled engine. *)
(*                                                                         *)
(* Typed keys and values are natural numbers of a fixed byte width; the    *)
(* engine stores byte strings (sequences over 0..255) and orders keys      *)
(* lexicographically.  Option<T> is a sequence of length 0 (None) or       *)
(* 1 (Some).                                                               *)
(***************************************************************************)
EXTENDS Integers, Sequences, FiniteSets, TLC

VARIABLES
    store,      \* the engine's collections: tree name -> (key bytes -> value bytes)
    counter,    \* Counter(AtomicU64) of the CounterTree handle on "tree2"
    pc,         \* per thread: where it is in the call it is making
    tx,         \* per thread: the transaction it runs (closure, position, overlay)
    kg,         \* per thread: locals of a key-generating call (key drawn, batch)
    issued,     \* the keys drawn from the generator by any caller, in the order drawn
    nops,       \* per thread: calls started
    commits,    \* transactions committed
    last,       \* the last completed call of the sequential caller and its result
    bmap,       \* BTreeMap<K, V> run beside "tree0" (reference model)
    vmap        \* BTreeMap<K, V> run beside the open view of "tree0" (bmap when none is open)

vars == <<store, counter, pc, tx, kg, issued, nops, commits, last, bmap, vmap>>

\* what a sequential caller of Tree leaves alone
threadVars == <<pc, tx, kg, issued, nops, commits>>

----------------------------------------------------------------------------
(* Option<T> *)

None == <<>>
Some(x) == <<x>>
IsSome(o) == Len(o) = 1
Unwrap(o) == o[1]

----------------------------------------------------------------------------
(* The collections.  tree0 is the Tree<u32, u32> of the tests of lib.rs,   *)
(* tree1 a Tree<u16, u16>, tree2 a CounterTree<u32> (u64 keys).            *)

Trees == {"tree0", "tree1", "tree2"}

\* size in bytes of the key type of a tree
KeyWidth(t) == CASE t = "tree0" -> 4 [] t = "tree1" -> 2 [] t = "tree2" -> 8

\* size in bytes of the value type of a tree
ValWidth(t) == CASE t = "tree0" -> 4 [] t = "tree1" -> 2 [] t = "tree2" -> 4

----------------------------------------------------------------------------
(* Serialization: bincode::serialize writes an integer as its fixed-width  *)
(* little-endian bytes; bincode::deserialize reads them back.              *)

RECURSIVE LEBytes(_, _)
LEBytes(n, w) == IF w = 0 THEN <<>> ELSE <<n % 256>> \o LEBytes(n \div 256, w - 1)

RECURSIVE FromLE(_)
FromLE(b) == IF b = <<>> THEN 0 ELSE Head(b) + 256 * FromLE(Tail(b))

\* BincodeSerializer::serialize for an integer of w bytes
Serialize(x, w) == LEBytes(x, w)

RECURSIVE FromBE(_)
FromBE(b) == IF b = <<>> THEN 0 ELSE 256 * FromBE(SubSeq(b, 1, Len(b) - 1)) + b[Len(b)]

\* a deserializer configured for the other byte order than the serializer
DeserializeBigEndian(bytes) == FromBE(bytes)

\* BincodeDeserializer::deserialize / lib.rs deserialize
Deserialize(bytes) == FromLE(bytes)

\* opt.map(SerDe::DV::deserialize)
MapDeserialize(opt) == IF IsSome(opt) THEN Some(Deserialize(Unwrap(opt))) ELSE None

\* opt.map(|v| SerDe::SV::serialize(v))
MapSerialize(opt, w) == IF IsSome(opt) THEN Some(Serialize(Unwrap(opt), w)) ELSE None

----------------------------------------------------------------------------
(* The storage engine (sled::Tree), on one collection m: a function from   *)
(* key bytes to value bytes, ordered by lexicographic byte order.          *)

RECURSIVE BytesLess(_, _)
BytesLess(a, b) ==
    IF b = <<>> THEN FALSE
    ELSE IF a = <<>> THEN TRUE
    ELSE IF Head(a) # Head(b) THEN Head(a) < Head(b)
    ELSE BytesLess(Tail(a), Tail(b))

BytesLeq(a, b) == a = b \/ BytesLess(a, b)

SledGet(m, kb) == IF kb \in DOMAIN m THEN Some(m[kb]) ELSE None

SledInsert(m, kb, vb) == [x \in DOMAIN m \cup {kb} |-> IF x = kb THEN vb ELSE m[x]]

SledRemove(m, kb) == [x \in DOMAIN m \ {kb} |-> m[x]]

\* set or delete, as compare_and_swap and a batch entry do
SledSet(m, kb, optvb) ==
    IF IsSome(optvb) THEN SledInsert(m, kb, Unwrap(optvb)) ELSE SledRemove(m, kb)

\* the keys of a set in ascending byte order
RECURSIVE SortKeys(_)
SortKeys(S) ==
    IF S = {} THEN <<>>
    ELSE LET lo == CHOOSE x \in S : \A y \in S : BytesLeq(x, y)
         IN  <<lo>> \o SortKeys(S \ {lo})

\* sled::Tree::range(lo..hi): the entries with lo <= key < hi, ascending
SledRange(m, lob, hib) ==
    LET ks == SortKeys({x \in DOMAIN m : BytesLeq(lob, x) /\ BytesLess(x, hib)})
    IN  [i \in 1..Len(ks) |-> <<ks[i], m[ks[i]]>>]

\* sled::Tree::last(): the entry with the greatest key
SledLast(m) ==
    IF DOMAIN m = {} THEN None
    ELSE LET hi == CHOOSE x \in DOMAIN m : \A y \in DOMAIN m : BytesLeq(y, x)
         IN  Some(<<hi, m[hi]>>)

----------------------------------------------------------------------------
(* custom_serde::Tree<K, V, BincodeSerDe> over the collection m of tree t. *)
(* A writing call gives the new collection and what the call returns.      *)

TreeGet(m, t, k) == MapDeserialize(SledGet(m, Serialize(k, KeyWidth(t))))

TreeInsert(m, t, k, v) ==
    LET kb == Serialize(k, KeyWidth(t))
    IN  [map |-> SledInsert(m, kb, Serialize(v, ValWidth(t))),
         ret |-> MapDeserialize(SledGet(m, kb))]

TreeRemove(m, t, k) ==
    LET kb == Serialize(k, KeyWidth(t))
    IN  [map |-> SledRemove(m, kb), ret |-> MapDeserialize(SledGet(m, kb))]

\* Ok(()) is <<"Ok">>; Err(CompareAndSwapError {current, proposed}) carries both
CasOk == <<"Ok">>
CasErr(current, proposed) == <<"Err", current, proposed>>

TreeCompareAndSwap(m, t, k, old, new) ==
    LET kb == Serialize(k, KeyWidth(t))
        cur == SledGet(m, kb)
    IN  IF cur = MapSerialize(old, ValWidth(t))
        THEN [map |-> SledSet(m, kb, MapSerialize(new, ValWidth(t))), ret |-> CasOk]
        ELSE [map |-> m, ret |-> CasErr(MapDeserialize(cur), new)]

\* Tree::range(lo..hi): the engine's iterator over the encoded bounds
TreeRange(m, t, lo, hi) ==
    SledRange(m, Serialize(lo, KeyWidth(t)), Serialize(hi, KeyWidth(t)))

\* Tree::last_key()
TreeLastKey(m) ==
    IF IsSome(SledLast(m)) THEN Some(Deserialize(Unwrap(SledLast(m))[1])) ELSE None

----------------------------------------------------------------------------
(* Iter<K, V> (lib.rs): the engine's iterator, here the raw entries it has *)
(* yet to yield; each item is decoded as it is yielded.                    *)

DecodeItem(e) == <<Deserialize(e[1]), Deserialize(e[2])>>

\* a next() that takes the entry at the far end
IterNextReversed(it) ==
    IF it = <<>> THEN [item |-> None, rest |-> <<>>]
    ELSE [item |-> Some(DecodeItem(it[Len(it)])), rest |-> SubSeq(it, 1, Len(it) - 1)]

IterNext(it) ==
    IF it = <<>> THEN [item |-> None, rest |-> <<>>]
    ELSE [item |-> Some(DecodeItem(Head(it))), rest |-> Tail(it)]

\* for item in iter { .. }: next() until it returns None
RECURSIVE IterCollect(_)
IterCollect(it) ==
    LET r == IterNext(it)
    IN  IF IsSome(r.item) THEN <<Unwrap(r.item)>> \o IterCollect(r.rest) ELSE <<>>

----------------------------------------------------------------------------
(* The engine's transactions (sled::Transactional): optimistic.  An attempt *)
(* buffers its writes in an overlay (wset: per tree, key bytes -> Some      *)
(* bytes | None for a delete) and records what it read (rset).  dirty holds *)
(* the entries other writers changed since the attempt started.            *)

Procs == {"p1", "p2"}

EmptyW == [t \in Trees |-> <<>>]
EmptyR == [t \in Trees |-> {}]

\* TransactionalTree::get of the engine: the attempt's own write, else the tree
StxGet(m, wt, kb) == IF kb \in DOMAIN wt THEN wt[kb] ELSE SledGet(m, kb)

\* TransactionalTree::insert / remove of the engine: buffered
StxSet(wt, kb, optvb) == [x \in DOMAIN wt \cup {kb} |-> IF x = kb THEN optvb ELSE wt[x]]

\* the engine's commit: every buffered write of every tree, at once
SledCommit(st, w) ==
    [t \in Trees |->
        [x \in (DOMAIN st[t] \cup {y \in DOMAIN w[t] : IsSome(w[t][y])})
                  \ {y \in DOMAIN w[t] : ~IsSome(w[t][y])} |->
            IF x \in DOMAIN w[t] THEN Unwrap(w[t][x]) ELSE st[t][x]]]

\* the entries in which two stores differ
Changed(st1, st2) ==
    {e \in UNION {{<<t, kb>> : kb \in DOMAIN st1[t] \cup DOMAIN st2[t]} : t \in Trees} :
        SledGet(st1[e[1]], e[2]) # SledGet(st2[e[1]], e[2])}

\* the entries an attempt read or wrote
Touched(x) == UNION {{<<t, kb>> : kb \in x.rset[t] \cup DOMAIN x.wset[t]} : t \in Trees}

\* validation at commit: nothing the attempt touched was changed meanwhile
Valid(x) == Touched(x) \cap x.dirty = {}

----------------------------------------------------------------------------
(* Counter (key_generating.rs): one atomic fetch_add(1) per key.  The      *)
(* counter stays far below 2^64 in every run here, so it never wraps.      *)

\* a next_key that loads the counter and leaves it
NextKeyLoad(c) == [key |-> c, counter |-> c]

\* a next_key that returns the incremented value
NextKeyNewValue(c) == [key |-> c + 1, counter |-> c + 1]

\* Counter::next_key
NextKey(c) == [key |-> c, counter |-> c + 1]

\* Counter::initialize: the last key of the tree plus one, 0 for an empty tree
CounterInitialize(m) ==
    IF IsSome(TreeLastKey(m)) THEN Unwrap(TreeLastKey(m)) + 1 ELSE 0

----------------------------------------------------------------------------
(* Batch: Put / Delete entries in insertion order, as <<key bytes,         *)
(* Some(value bytes) | None>>.                                             *)

BatchInsert(b, t, k, v) ==
    Append(b, <<Serialize(k, KeyWidth(t)), Some(Serialize(v, ValWidth(t)))>>)

BatchRemove(b, t, k) == Append(b, <<Serialize(k, KeyWidth(t)), None>>)

\* an insert that puts its entry in front of the batch
KGBatchInsertFirst(b, c, t, v) ==
    LET nk == NextKey(c)
    IN  [batch |-> BatchInsert(<<>>, t, nk.key, v) \o b, counter |-> nk.counter,
         key |-> nk.key]

\* a batch insert that reads the counter and leaves it
KGBatchInsertPeek(b, c, t, v) ==
    [batch |-> BatchInsert(b, t, c, v), counter |-> c, key |-> c]

\* KeyGeneratingBatch::insert: the key is drawn when the entry is buffered
KGBatchInsert(b, c, t, v) ==
    LET nk == NextKey(c)
    IN  [batch |-> BatchInsert(b, t, nk.key, v), counter |-> nk.counter, key |-> nk.key]

\* the Batch built from typed entries <<key, Some(value) | None>>, in order
RECURSIVE BatchOf(_, _)
BatchOf(t, es) ==
    IF es = <<>> THEN <<>>
    ELSE LET e == es[Len(es)]
             b == BatchOf(t, SubSeq(es, 1, Len(es) - 1))
         IN  IF IsSome(e[2]) THEN BatchInsert(b, t, e[1], Unwrap(e[2]))
             ELSE BatchRemove(b, t, e[1])

\* the entry of a batch that decides a key: the last one for it
BatchFinal(b, kb) ==
    b[CHOOSE i \in 1..Len(b) : b[i][1] = kb /\ \A j \in (i + 1)..Len(b) : b[j][1] # kb][2]

BatchKeys(b) == {b[i][1] : i \in 1..Len(b)}

\* the keys of the Put entries of a typed batch log
BatchKeysTyped(es) == {es[i][1] : i \in {j \in 1..Len(es) : IsSome(es[j][2])}}

\* sled::Tree::apply_batch: every key of the batch set or deleted, at once
SledApplyBatch(m, b) ==
    LET puts == {kb \in BatchKeys(b) : IsSome(BatchFinal(b, kb))}
    IN  [x \in (DOMAIN m \ BatchKeys(b)) \cup puts |->
            IF x \in puts THEN Unwrap(BatchFinal(b, x)) ELSE m[x]]

\* Tree::apply_batch
TreeApplyBatch(m, b) == SledApplyBatch(m, b)

\* the engine's TransactionalTree::apply_batch: every entry buffered
StxApplyBatch(wt, b) ==
    [x \in DOMAIN wt \cup BatchKeys(b) |->
        IF x \in BatchKeys(b) THEN BatchFinal(b, x) ELSE wt[x]]

----------------------------------------------------------------------------
(* transaction::TransactionalTree<K, V, SerDe>: the typed view of one tree *)
(* inside an attempt.  m is the tree's collection, wt the attempt's        *)
(* overlay of it; a call gives both back, with what it returns and the key *)
(* bytes it read.                                                          *)

\* an apply_batch that goes to the Tree of the view, not to the attempt
TxApplyBatchDirect(m, wt, b) ==
    [map |-> TreeApplyBatch(m, b), wset |-> wt, ret |-> None, read |-> {}]

\* an insert that goes to the Tree of the view, not to the attempt
TxInsertDirect(m, wt, t, k, v) ==
    LET r == TreeInsert(m, t, k, v)
    IN  [map |-> r.map, wset |-> wt, ret |-> r.ret, read |-> {}]

TxInsert(m, wt, t, k, v) ==
    LET kb == Serialize(k, KeyWidth(t))
    IN  [map |-> m,
         wset |-> StxSet(wt, kb, Some(Serialize(v, ValWidth(t)))),
         ret |-> MapDeserialize(StxGet(m, wt, kb)),
         read |-> {}]

\* a remove that calls the engine's get
TxRemoveAsGet(m, wt, t, k) ==
    LET kb == Serialize(k, KeyWidth(t))
    IN  [map |-> m, wset |-> wt, ret |-> MapDeserialize(StxGet(m, wt, kb)), read |-> {kb}]

TxRemove(m, wt, t, k) ==
    LET kb == Serialize(k, KeyWidth(t))
    IN  [map |-> m,
         wset |-> StxSet(wt, kb, None),
         ret |-> MapDeserialize(StxGet(m, wt, kb)),
         read |-> {}]

TxGet(m, wt, t, k) ==
    LET kb == Serialize(k, KeyWidth(t))
    IN  [map |-> m, wset |-> wt, ret |-> MapDeserialize(StxGet(m, wt, kb)), read |-> {kb}]

TxApplyBatch(m, wt, b) ==
    [map |-> m, wset |-> StxApplyBatch(wt, b), ret |-> None, read |-> {}]

\* KeyGeneratingTransactionalTree::insert: inner.insert(&next_key(), value)
KGTxInsert(m, wt, c, t, v) ==
    LET nk == NextKey(c)
    IN  [view |-> TxInsert(m, wt, t, nk.key, v), counter |-> nk.counter, key |-> nk.key]

----------------------------------------------------------------------------
(* A closure is a list of calls on its views, then its result.  The value  *)
(* written by an "_inc" call is the last value read plus one (0 if the key *)
(* was absent).                                                            *)

RegPlusOne(reg) == (IF IsSome(reg) THEN Unwrap(reg) ELSE 0) + 1

\* one call of the closure on the view of tree ins.t
ViewCall(m, wt, c, reg, ins) ==
    LET plain(r) == [view |-> r, counter |-> c, drawn |-> <<>>]
    IN  CASE ins.op = "get" -> plain(TxGet(m, wt, ins.t, ins.k))
          [] ins.op = "insert" -> plain(TxInsert(m, wt, ins.t, ins.k, ins.v))
          [] ins.op = "insert_inc" -> plain(TxInsert(m, wt, ins.t, ins.k, RegPlusOne(reg)))
          [] ins.op = "remove" -> plain(TxRemove(m, wt, ins.t, ins.k))
          [] ins.op = "apply_batch" -> plain(TxApplyBatch(m, wt, BatchOf(ins.t, ins.batch)))
          [] ins.op = "kg_insert_inc" ->
                LET r == KGTxInsert(m, wt, c, ins.t, RegPlusOne(reg))
                IN  [view |-> r.view, counter |-> r.counter, drawn |-> <<r.key>>]

\* views that keep what the attempt before had buffered and read
StaleViews(x) == [wset |-> x.wset, rset |-> x.rset]

\* the views of an invocation of the closure, x being the attempt before it:
\* built anew from the engine's handles, nothing buffered, nothing read
FreshViews(x) == [wset |-> EmptyW, rset |-> EmptyR]

NoTx == [prog |-> <<>>, pos |-> 0, reg |-> None, wset |-> EmptyW, rset |-> EmptyR,
         dirty |-> {}, calls |-> 0, ret |-> None]

\* what transaction() returns
TxOk == <<"Ok">>
TxAborted(e) == <<"Abort", e>>
AbortValue(x) ==
    IF x.prog[x.pos].abort # None THEN Unwrap(x.prog[x.pos].abort)
    ELSE Unwrap(x.prog[x.pos].may)

IsOpen(x) == x.pos > 0

\* other writers' changes, recorded against the attempts that are open
MarkDirty(txs, p, ch) ==
    [q \in Procs |->
        IF q # p /\ IsOpen(txs[q]) THEN [txs[q] EXCEPT !.dirty = @ \cup ch] ELSE txs[q]]

\* (&A, &B, ...).transaction(f): the first invocation of f.  The caller keeps
\* its own books (nops, commits, last) beside the Tx actions.
TxBegin(p, prog) ==
    /\ pc[p] = "idle"
    /\ pc' = [pc EXCEPT ![p] = "tx"]
    /\ tx' = [tx EXCEPT ![p] = [NoTx EXCEPT !.prog = prog, !.pos = 1, !.calls = 1,
                                     !.wset = FreshViews(NoTx).wset,
                                     !.rset = FreshViews(NoTx).rset]]
    /\ vmap' = bmap
    /\ UNCHANGED <<store, counter, kg, issued, bmap>>

\* BTreeMap beside the view: what the call does to a map
RECURSIVE MapAfterEntries(_, _)
MapAfterEntries(mp, es) ==
    IF es = <<>> THEN mp
    ELSE MapAfterEntries([mp EXCEPT ![es[1][1]] = es[1][2]], Tail(es))

MapAfter(mp, ins) ==
    CASE ins.op = "insert" -> [mp EXCEPT ![ins.k] = Some(ins.v)]
      [] ins.op = "remove" -> [mp EXCEPT ![ins.k] = None]
      [] ins.op = "apply_batch" -> MapAfterEntries(mp, ins.batch)
      [] OTHER -> mp

\* the closure makes its next call on a view
TxStep(p) ==
    /\ pc[p] = "tx"
    /\ tx[p].prog[tx[p].pos].op # "return"
    /\ LET x == tx[p]
           ins == x.prog[x.pos]
           r == ViewCall(store[ins.t], x.wset[ins.t], counter, x.reg, ins)
           st == [store EXCEPT ![ins.t] = r.view.map]
           own == [x EXCEPT !.pos = @ + 1,
                            !.wset[ins.t] = r.view.wset,
                            !.rset[ins.t] = @ \cup r.view.read,
                            !.ret = r.view.ret,
                            !.reg = IF ins.op = "get" THEN r.view.ret ELSE @]
       IN  /\ store' = st
           /\ counter' = r.counter
           /\ tx' = MarkDirty([tx EXCEPT ![p] = own], p, Changed(store, st))
           /\ issued' = issued \o r.drawn
           /\ vmap' = IF ins.t = "tree0" THEN MapAfter(vmap, ins) ELSE vmap
    /\ UNCHANGED <<pc, kg, bmap>>

AtReturn(p) == pc[p] = "tx" /\ tx[p].prog[tx[p].pos].op = "return"

\* the closure returned Ok and validation passed: the writes become visible
TxCommit(p) ==
    /\ AtReturn(p)
    /\ tx[p].prog[tx[p].pos].abort = None
    /\ Valid(tx[p])
    /\ LET st == SledCommit(store, tx[p].wset)
       IN  /\ store' = st
           /\ tx' = MarkDirty([tx EXCEPT ![p] = NoTx], p, Changed(store, st))
    /\ pc' = [pc EXCEPT ![p] = "idle"]
    /\ bmap' = vmap
    /\ UNCHANGED <<counter, kg, issued, vmap>>

\* a retry that hands the keys of the discarded invocation back to the generator
TxRetryRollback(p) ==
    /\ AtReturn(p)
    /\ tx[p].prog[tx[p].pos].abort = None
    /\ ~Valid(tx[p])
    /\ tx' = [tx EXCEPT ![p] = [NoTx EXCEPT !.prog = tx[p].prog, !.pos = 1,
                                     !.calls = tx[p].calls + 1,
                                     !.wset = FreshViews(tx[p]).wset,
                                     !.rset = FreshViews(tx[p]).rset]]
    /\ counter' = counter - Cardinality(DOMAIN tx[p].wset["tree2"])
    /\ UNCHANGED <<store, pc, kg, issued, bmap, vmap>>

\* the closure returned Ok and validation failed: the writes are dropped and
\* the closure is invoked again
TxRetry(p) ==
    /\ AtReturn(p)
    /\ tx[p].prog[tx[p].pos].abort = None
    /\ ~Valid(tx[p])
    /\ tx' = [tx EXCEPT ![p] = [NoTx EXCEPT !.prog = tx[p].prog, !.pos = 1,
                                     !.calls = tx[p].calls + 1,
                                     !.wset = FreshViews(tx[p]).wset,
                                     !.rset = FreshViews(tx[p]).rset]]
    /\ UNCHANGED <<store, counter, pc, kg, issued, bmap, vmap>>

\* the closure returned Err(Abort(e)): transaction() returns it, nothing is applied
TxAbort(p) ==
    /\ AtReturn(p)
    /\ tx[p].prog[tx[p].pos].abort # None \/ tx[p].prog[tx[p].pos].may # None
    /\ tx' = [tx EXCEPT ![p] = NoTx]
    /\ pc' = [pc EXCEPT ![p] = "idle"]
    /\ vmap' = bmap
    /\ UNCHANGED <<store, counter, kg, issued, bmap>>

----------------------------------------------------------------------------
(* The calls a closure can make, and its result.                           *)

Call(op, t, k, v) ==
    [op |-> op, t |-> t, k |-> k, v |-> v, batch |-> <<>>, abort |-> None, may |-> None]
\* es: the typed entries of the batch the closure applies
CallBatch(t, es) ==
    [op |-> "apply_batch", t |-> t, k |-> 0, v |-> 0, batch |-> es, abort |-> None,
     may |-> None]
\* the closure returns Ok (abort = None) or Err(Abort(e)) (abort = Some(e))
Return(abort) ==
    [op |-> "return", t |-> "", k |-> 0, v |-> 0, batch |-> <<>>, abort |-> abort,
     may |-> None]
\* the closure returns Ok or Err(Abort(e)), which one being its own affair
ReturnEither(e) ==
    [op |-> "return", t |-> "", k |-> 0, v |-> 0, batch |-> <<>>, abort |-> None,
     may |-> Some(e)]

----------------------------------------------------------------------------
(* A sequential caller of tree0: Tree<u32, u32>, directly and through the  *)
(* view of (&tree0,).transaction(..).                                      *)

MaxWide == 1

\* sample keys: one of a single significant byte, and keys that need a second
\* byte (257 shares its low byte with 1)
TreeKeys == {1} \cup (257..(256 + MaxWide))
TreeVals == {2, 4}
CasOld == {None, Some(2), Some(3)}
CasNew == {None, Some(2), Some(4)}
AbortVals == {None, Some(7)}

T0 == "tree0"
Main == "p1"

ViewCalls ==
    {Call("get", T0, k, 0) : k \in TreeKeys}
        \cup {Call("remove", T0, k, 0) : k \in TreeKeys}
        \cup {Call("insert", T0, k, v) : k \in TreeKeys, v \in TreeVals}
        \cup {CallBatch(T0, <<<<257, Some(2)>>, <<1, None>>, <<257, Some(4)>>>>)}

\* closures of two calls: the second sees what the first wrote
TreeProgs == {<<c1, c2, Return(a)>> : c1 \in ViewCalls, c2 \in ViewCalls, a \in AbortVals}

InitStore == [t \in Trees |-> <<>>]

\* the locals of a key-generating call: the key drawn and the value to store,
\* or the batch under construction (log: its typed entries, in call order)
NoKg == [key |-> 0, val |-> 0, batch |-> <<>>, log |-> <<>>]

InitThreads ==
    /\ pc = [p \in Procs |-> "idle"]
    /\ tx = [p \in Procs |-> NoTx]
    /\ kg = [p \in Procs |-> NoKg]
    /\ issued = <<>>
    /\ nops = [p \in Procs |-> 0]
    /\ commits = 0

InitTree ==
    /\ store = InitStore
    /\ counter = 0
    /\ InitThreads
    /\ last = [op |-> "open"]
    /\ bmap = [k \in TreeKeys |-> None]
    /\ vmap = [k \in TreeKeys |-> None]

DoInsert(k, v) ==
    /\ pc[Main] = "idle"
    /\ LET r == TreeInsert(store[T0], T0, k, v)
       IN  /\ store' = [store EXCEPT ![T0] = r.map]
           /\ last' = [op |-> "insert", key |-> k, val |-> v, ret |-> r.ret]
    /\ bmap' = [bmap EXCEPT ![k] = Some(v)]
    /\ vmap' = bmap'
    /\ UNCHANGED <<counter, threadVars>>

DoRemove(k) ==
    /\ pc[Main] = "idle"
    /\ LET r == TreeRemove(store[T0], T0, k)
       IN  /\ store' = [store EXCEPT ![T0] = r.map]
           /\ last' = [op |-> "remove", key |-> k, ret |-> r.ret]
    /\ bmap' = [bmap EXCEPT ![k] = None]
    /\ vmap' = bmap'
    /\ UNCHANGED <<counter, threadVars>>

DoGet(k) ==
    /\ pc[Main] = "idle"
    /\ last' = [op |-> "get", key |-> k, ret |-> TreeGet(store[T0], T0, k)]
    /\ UNCHANGED <<store, counter, threadVars, bmap, vmap>>

DoCompareAndSwap(k, old, new) ==
    /\ pc[Main] = "idle"
    /\ LET r == TreeCompareAndSwap(store[T0], T0, k, old, new)
       IN  /\ store' = [store EXCEPT ![T0] = r.map]
           /\ last' = [op |-> "cas", key |-> k, old |-> old, new |-> new, ret |-> r.ret]
           /\ bmap' = IF r.ret = CasOk THEN [bmap EXCEPT ![k] = new] ELSE bmap
    /\ vmap' = bmap'
    /\ UNCHANGED <<counter, threadVars>>

\* (&tree0,).transaction(prog) and its steps
DoTransaction(prog) ==
    /\ TxBegin(Main, prog)
    /\ last' = [op |-> "transaction", ret |-> None, calls |-> 1, writes |-> 0]
    /\ UNCHANGED <<nops, commits>>

DoViewCall == TxStep(Main) /\ UNCHANGED <<nops, commits, last>>

DoCommit ==
    /\ TxCommit(Main)
    /\ last' = [op |-> "transaction", ret |-> TxOk, calls |-> tx[Main].calls,
                 writes |-> Cardinality(DOMAIN tx[Main].wset[T0])]
    /\ UNCHANGED <<nops, commits>>

DoAbort ==
    /\ TxAbort(Main)
    /\ last' = [op |-> "transaction", ret |-> TxAborted(AbortValue(tx[Main])),
                 calls |-> tx[Main].calls,
                 writes |-> Cardinality(DOMAIN tx[Main].wset[T0])]
    /\ UNCHANGED <<nops, commits>>

NextTree ==
    \/ \E k \in TreeKeys, v \in TreeVals : DoInsert(k, v)
    \/ \E k \in TreeKeys : DoRemove(k)
    \/ \E k \in TreeKeys : DoGet(k)
    \/ \E k \in TreeKeys, old \in CasOld, new \in CasNew : DoCompareAndSwap(k, old, new)
    \/ \E prog \in TreeProgs : DoTransaction(prog)
    \/ DoViewCall
    \/ DoCommit
    \/ DoAbort

SpecTree == InitTree /\ [][NextTree]_vars

----------------------------------------------------------------------------
(* Properties of the sequential caller (SpecTree).                         *)

\* what get(k) returns on tree0
Get0(st, k) == TreeGet(st[T0], T0, k)

\* what get(k) returns on the open view of tree0
ViewGet0(k) == TxGet(store[T0], tx[Main].wset[T0], T0, k).ret

\* C5: compare_and_swap(key, expected, proposed) changes the stored value if
\* and only if the value stored at key equals expected: on a match it returns
\* Ok and get(key) then returns proposed (None: the key is deleted); on a
\* mismatch it returns CompareAndSwapError with the actual current value and
\* the rejected proposed value, and no entry changes.
C5_CompareAndSwap ==
    [][last'.op = "cas" =>
        LET k == last'.key
            cur == bmap[k]
        IN  /\ cur = Get0(store, k)
            /\ \A k2 \in TreeKeys \ {k} : Get0(store', k2) = Get0(store, k2)
            /\ IF cur = last'.old
               THEN last'.ret = CasOk /\ Get0(store', k) = last'.new
               ELSE last'.ret = CasErr(cur, last'.new) /\ store' = store]_vars

\* the test of lib.rs: 2 stored at key 1, compare_and_swap(1, Some(3), Some(4))
W5_CasMismatch ==
    /\ last.op = "cas"
    /\ last.key = 1 /\ last.old = Some(3) /\ last.new = Some(4)
    /\ last.ret = CasErr(Some(2), Some(4))
    /\ Get0(store, 1) = Some(2)

\* C8: when the closure returns an abort value, transaction() returns the
\* abort error carrying it, the closure is not invoked again, and nothing the
\* closure did through its views is applied: the collections hold what they
\* held before the transaction (bmap: the contents when it began).
C8_AbortAppliesNothing ==
    /\ [](pc[Main] = "tx" =>
            /\ \A k \in TreeKeys : Get0(store, k) = bmap[k]
            /\ \A kb \in DOMAIN store[T0] : Deserialize(kb) \in TreeKeys)
    /\ [][(AtReturn(Main) /\ tx[Main].prog[tx[Main].pos].abort # None) =>
            /\ last'.op = "transaction"
            /\ last'.ret = TxAborted(AbortValue(tx[Main]))
            /\ last'.calls = 1
            /\ pc'[Main] = "idle" /\ ~IsOpen(tx'[Main])
            /\ store' = store
            /\ \A k \in TreeKeys : Get0(store', k) = bmap[k]]_vars

\* an aborted closure that had written two keys through its view
W8_AbortedAfterWrites ==
    /\ last.op = "transaction" /\ last.ret = TxAborted(7) /\ last.writes = 2
    /\ pc[Main] = "idle"
    /\ Get0(store, 1) = Some(2) /\ Get0(store, 257) = None
    /\ vmap = bmap

\* C10: a Tree behaves like a BTreeMap<K, V> (bmap; vmap inside a closure):
\* get(k) returns the value of the latest insert(k, v) not followed by
\* remove(k), insert and remove return what get(k) returned just before, and
\* a call on one key leaves every other key alone.  The same holds of the
\* view's insert, remove and get inside a transaction.
C10_TreeIsMap ==
    /\ [](/\ pc[Main] = "idle" => \A k \in TreeKeys : Get0(store, k) = bmap[k]
          /\ pc[Main] = "tx" => \A k \in TreeKeys : ViewGet0(k) = vmap[k])
    /\ [][/\ last'.op \in {"insert", "remove"} =>
                /\ last'.ret = Get0(store, last'.key)
                /\ \A k2 \in TreeKeys \ {last'.key} : Get0(store', k2) = Get0(store, k2)
          /\ (pc[Main] = "tx" /\ tx'[Main].pos = tx[Main].pos + 1
                /\ tx[Main].prog[tx[Main].pos].op \in {"insert", "remove", "get"}) =>
                tx'[Main].ret = vmap[tx[Main].prog[tx[Main].pos].k]]_vars

\* insert(1, 2), insert(257, 4), then remove(1) returned Some(2); 257 is intact
W10_RemoveAfterInserts ==
    /\ last.op = "remove" /\ last.key = 1 /\ last.ret = Some(2)
    /\ bmap[1] = None /\ bmap[257] = Some(4)
    /\ Get0(store, 257) = Some(4)

----------------------------------------------------------------------------
(* Range queries on tree0: Tree<u32, u32>, the keys and values of          *)
(* tests::test_range and keys that need a second byte.                     *)

RangeKeys == {1, 3, 6, 10, 15} \cup (256..(255 + MaxWide))
RangeBounds == {0, 6, 11, 16, 256, 300}

\* the value test_range stores at a key
RangeVal(k) == IF k = 1 THEN 2 ELSE IF k = 3 THEN 4 ELSE 2

InitRange ==
    /\ store = InitStore
    /\ counter = 0
    /\ InitThreads
    /\ last = [op |-> "open"]
    /\ bmap = [k \in RangeKeys |-> None]
    /\ vmap = [k \in RangeKeys |-> None]

RangeInsert(k) ==
    /\ store' = [store EXCEPT ![T0] = TreeInsert(store[T0], T0, k, RangeVal(k)).map]
    /\ last' = [op |-> "insert", key |-> k]
    /\ bmap' = [bmap EXCEPT ![k] = Some(RangeVal(k))]
    /\ vmap' = bmap'
    /\ UNCHANGED <<counter, threadVars>>

\* for result in tree.range(lo..hi)
DoRange(lo, hi) ==
    /\ last' = [op |-> "range", lo |-> lo, hi |-> hi,
                ret |-> IterCollect(TreeRange(store[T0], T0, lo, hi))]
    /\ UNCHANGED <<store, counter, threadVars, bmap, vmap>>

NextRange ==
    \/ \E k \in RangeKeys : RangeInsert(k)
    \/ \E lo \in RangeBounds, hi \in RangeBounds : DoRange(lo, hi)

SpecRange == InitRange /\ [][NextRange]_vars

\* the place of a key below 65536 in the order of its little-endian bytes:
\* low byte first
ByteRank(k) == (k % 256) * 256 + (k \div 256)

KeyRank == "key"
Rank(k, by) == IF by = KeyRank THEN k ELSE ByteRank(k)

\* the entries of a map with keys in S, ascending by Rank(key, by)
RECURSIVE SortedBy(_, _, _)
SortedBy(mp, S, by) ==
    IF S = {} THEN <<>>
    ELSE LET k == CHOOSE x \in S : \A y \in S : Rank(x, by) <= Rank(y, by)
         IN  <<<<k, Unwrap(mp[k])>>>> \o SortedBy(mp, S \ {k}, by)

Stored(mp) == {k \in DOMAIN mp : IsSome(mp[k])}

\* C6 as stated: range(lo..hi) yields exactly the stored entries with
\* lo <= k < hi, in ascending key order, for every set of keys and bounds.
C6_RangeInKeyOrder ==
    last.op = "range" =>
        last.ret = SortedBy(bmap, {k \in Stored(bmap) : last.lo <= k /\ k < last.hi}, KeyRank)

\* C6, amended: range(lo..hi) yields exactly the stored entries whose encoded
\* (little-endian) key is, byte-wise, at least the encoded lo and below the
\* encoded hi, ascending in that byte order; when the stored keys and both
\* bounds are below 256 these are the entries with lo <= k < hi in ascending
\* key order.
C6_RangeInByteOrder ==
    last.op = "range" =>
        /\ last.ret = SortedBy(bmap, {k \in Stored(bmap) :
                                ByteRank(last.lo) <= ByteRank(k)
                                    /\ ByteRank(k) < ByteRank(last.hi)}, "bytes")
        /\ ((\A k \in Stored(bmap) \cup {last.lo, last.hi} : k < 256) =>
                last.ret = SortedBy(bmap, {k \in Stored(bmap) : last.lo <= k /\ k < last.hi},
                                    KeyRank))

\* test_range: keys {1, 3, 6, 10, 15}, range(6..11) yields (6, 2), (10, 2)
W6_TestRange ==
    /\ Stored(bmap) = {1, 3, 6, 10, 15}
    /\ last.op = "range" /\ last.lo = 6 /\ last.hi = 11
    /\ last.ret = <<<<6, 2>>, <<10, 2>>>>

----------------------------------------------------------------------------
(* CounterTree<u32> on tree2, one sequential caller, insert(value) only.   *)
(* bmap is the list of the values passed to insert, in call order.         *)

MaxInserts == 3

T2 == "tree2"
CounterVals == {5, 6, 7}

\* KeyGeneratingTree::insert: (key, previous value at key)
KGTreeInsert(m, c, t, v) ==
    LET nk == NextKey(c)
        r == TreeInsert(m, t, nk.key, v)
    IN  [map |-> r.map, counter |-> nk.counter, ret |-> <<nk.key, r.ret>>]

\* KeyGeneratingTree::open on the empty collection
InitCounter ==
    /\ store = InitStore
    /\ counter = CounterInitialize(InitStore[T2])
    /\ InitThreads
    /\ last = [op |-> "open"]
    /\ bmap = <<>>
    /\ vmap = <<>>

CounterInsert(v) ==
    /\ Len(bmap) < MaxInserts
    /\ LET r == KGTreeInsert(store[T2], counter, T2, v)
       IN  /\ store' = [store EXCEPT ![T2] = r.map]
           /\ counter' = r.counter
           /\ last' = [op |-> "insert", val |-> v, ret |-> r.ret]
    /\ bmap' = Append(bmap, v)
    /\ UNCHANGED <<threadVars, vmap>>

CounterGet(k) ==
    /\ last' = [op |-> "get", key |-> k, ret |-> TreeGet(store[T2], T2, k)]
    /\ UNCHANGED <<store, counter, threadVars, bmap, vmap>>

NextCounter ==
    \/ \E v \in CounterVals : CounterInsert(v)
    \/ \E k \in 0..MaxInserts : CounterGet(k)

SpecCounter == InitCounter /\ [][NextCounter]_vars

\* C4: on a CounterTree opened on an empty collection and used only through
\* insert(value), the i-th insert (from 0) returns (i, None), and get(i) then
\* returns the value passed to that insert; no other key is present.
C4_CounterInsert ==
    /\ last.op = "insert" => last.ret = <<Len(bmap) - 1, None>> /\ last.val = bmap[Len(bmap)]
    /\ \A i \in 1..Len(bmap) : TreeGet(store[T2], T2, i - 1) = Some(bmap[i])
    /\ Cardinality(DOMAIN store[T2]) = Len(bmap)
    /\ last.op = "get" =>
            last.ret = IF last.key < Len(bmap) THEN Some(bmap[last.key + 1]) ELSE None

\* the module's example: insert(5), insert(6) returned keys 0 and 1
W4_FiveThenSix ==
    /\ bmap = <<5, 6>>
    /\ last.op = "insert" /\ last.ret = <<1, None>>
    /\ TreeGet(store[T2], T2, 0) = Some(5)
    /\ TreeGet(store[T2], T2, 1) = Some(6)

----------------------------------------------------------------------------
(* Reopening a CounterTree: generated inserts, and KeyGeneratingTree::open *)
(* on the collection as it stands.  The i-th insert stores the value i.    *)

MaxStored == 258

InitReopen ==
    /\ store = InitStore
    /\ counter = CounterInitialize(InitStore[T2])
    /\ InitThreads
    /\ last = [op |-> "open"]
    /\ bmap = <<>>
    /\ vmap = <<>>

\* the collection holds exactly the keys 0..n-1
Dense(m, n) ==
    /\ Cardinality(DOMAIN m) = n
    /\ \A i \in 0..(n - 1) : Serialize(i, KeyWidth(T2)) \in DOMAIN m

ReopenInsert ==
    /\ nops[Main] < MaxStored
    /\ LET r == KGTreeInsert(store[T2], counter, T2, nops[Main] + 1)
           n == Cardinality(DOMAIN store[T2])
       IN  /\ store' = [store EXCEPT ![T2] = r.map]
           /\ counter' = r.counter
           /\ last' = [op |-> "insert", ret |-> r.ret, first |-> (last.op = "open"),
                        n |-> n, dense |-> Dense(store[T2], n)]
    /\ nops' = [nops EXCEPT ![Main] = @ + 1]
    /\ UNCHANGED <<pc, tx, kg, issued, commits, bmap, vmap>>

\* the handle is dropped and the collection opened again
Reopen ==
    /\ last.op = "insert"
    /\ counter' = CounterInitialize(store[T2])
    /\ last' = [op |-> "open"]
    /\ UNCHANGED <<store, threadVars, bmap, vmap>>

NextReopen == ReopenInsert \/ Reopen

SpecReopen == InitReopen /\ [][NextReopen]_vars

\* C3: opened on a collection that holds the keys 0..n-1 of n generated
\* inserts, the first insert returns key n and no previous value, and
\* overwrites nothing (the collection then holds n + 1 entries).
C3_ReopenResumes ==
    (last.op = "insert" /\ last.first /\ last.dense) =>
        /\ last.ret = <<last.n, None>>
        /\ Cardinality(DOMAIN store[T2]) = last.n + 1

\* the same, for collections whose keys all fit one byte
C3_ReopenResumesOneByte ==
    (last.op = "insert" /\ last.first /\ last.dense /\ last.n <= 256) =>
        /\ last.ret = <<last.n, None>>
        /\ Cardinality(DOMAIN store[T2]) = last.n + 1

----------------------------------------------------------------------------
(* Threads sharing the handles of tree0, tree1 and the CounterTree tree2.  *)
(* Each runs up to MaxOps transactions over (&tree0, &tree1, &tree2), or   *)
(* makes up to MaxCalls calls on tree2: insert, insert_fn, next_key, a     *)
(* batch of up to MaxBatch entries, or a transaction.  A thread can be     *)
(* preempted between any two calls it makes on the engine or on the        *)
(* counter.                                                                *)

MaxOps == 2
MaxCalls == 1
MaxBatch == 2

\* the key the transactions read and write in tree0 and tree1
X == 1

\* the closure: x = tree0.get(X); tree0.insert(X, x + 1); tree1.insert(X, x + 1);
\* tree2.insert(x + 1) under a generated key; then Ok or Abort
IncrProg ==
    <<Call("get", T0, X, 0), Call("insert_inc", T0, X, 0), Call("insert_inc", "tree1", X, 0),
      Call("kg_insert_inc", T2, 0, 0), ReturnEither(7)>>

\* values stored in tree2 outside transactions (transactions store small counts)
InsertVal == 10
BatchVal == 30
\* the closure passed to insert_fn
FnVal(key) == 20 + key
\* keys a batch may delete
RemoveKeys == {0}

InitSpec ==
    /\ store = InitStore
    /\ counter = CounterInitialize(InitStore[T2])
    /\ InitThreads
    /\ last = [op |-> "open"]
    /\ bmap = <<>>
    /\ vmap = <<>>

CanCall(p) == pc[p] = "idle" /\ nops[p] < MaxOps
CanCallKG(p) == pc[p] = "idle" /\ nops[p] < MaxCalls
Called(p) == nops' = [nops EXCEPT ![p] = @ + 1]

StartTx(p) ==
    /\ CanCall(p)
    /\ TxBegin(p, IncrProg)
    /\ Called(p)
    /\ UNCHANGED <<commits, last>>

Step(p) == TxStep(p) /\ UNCHANGED <<nops, commits, last>>

Commit(p) ==
    /\ TxCommit(p)
    /\ commits' = commits + 1
    /\ UNCHANGED <<nops, last>>

Retry(p) == TxRetry(p) /\ UNCHANGED <<nops, commits, last>>

Abort(p) == TxAbort(p) /\ UNCHANGED <<nops, commits, last>>

\* KeyGeneratingTree::insert: let key = self.key_generator.next_key();
KGInsert(p) ==
    /\ CanCallKG(p)
    /\ LET nk == NextKey(counter)
       IN  /\ counter' = nk.counter
           /\ issued' = Append(issued, nk.key)
           /\ kg' = [kg EXCEPT ![p] = [NoKg EXCEPT !.key = nk.key, !.val = InsertVal]]
    /\ pc' = [pc EXCEPT ![p] = "put"]
    /\ Called(p)
    /\ UNCHANGED <<store, tx, commits, last, bmap, vmap>>

\* KeyGeneratingTree::insert_fn: next_key(), then value = f(&key)
KGInsertFn(p) ==
    /\ CanCallKG(p)
    /\ LET nk == NextKey(counter)
       IN  /\ counter' = nk.counter
           /\ issued' = Append(issued, nk.key)
           /\ kg' = [kg EXCEPT ![p] = [NoKg EXCEPT !.key = nk.key, !.val = FnVal(nk.key)]]
    /\ pc' = [pc EXCEPT ![p] = "put"]
    /\ Called(p)
    /\ UNCHANGED <<store, tx, commits, last, bmap, vmap>>

\* ... self.inner.insert(&key, value)
KGPut(p) ==
    /\ pc[p] = "put"
    /\ LET r == TreeInsert(store[T2], T2, kg[p].key, kg[p].val)
           st == [store EXCEPT ![T2] = r.map]
       IN  /\ store' = st
           /\ tx' = MarkDirty(tx, p, Changed(store, st))
    /\ pc' = [pc EXCEPT ![p] = "idle"]
    /\ kg' = [kg EXCEPT ![p] = NoKg]
    /\ UNCHANGED <<counter, issued, nops, commits, last, bmap, vmap>>

\* KeyGeneratingTree::next_key
KGNextKey(p) ==
    /\ CanCallKG(p)
    /\ LET nk == NextKey(counter)
       IN  /\ counter' = nk.counter
           /\ issued' = Append(issued, nk.key)
    /\ Called(p)
    /\ UNCHANGED <<store, pc, tx, kg, commits, last, bmap, vmap>>

\* KeyGeneratingTree::new_batch
KGNewBatch(p) ==
    /\ CanCallKG(p)
    /\ pc' = [pc EXCEPT ![p] = "batch"]
    /\ kg' = [kg EXCEPT ![p] = NoKg]
    /\ Called(p)
    /\ UNCHANGED <<store, counter, tx, issued, commits, last, bmap, vmap>>

\* batch.insert(&value)
KGBatchIns(p) ==
    /\ pc[p] = "batch"
    /\ Len(kg[p].log) < MaxBatch
    /\ LET r == KGBatchInsert(kg[p].batch, counter, T2, BatchVal)
       IN  /\ counter' = r.counter
           /\ issued' = Append(issued, r.key)
           /\ kg' = [kg EXCEPT ![p].batch = r.batch,
                               ![p].log = Append(@, <<r.key, Some(BatchVal)>>)]
    /\ UNCHANGED <<store, pc, tx, nops, commits, last, bmap, vmap>>

\* batch.remove(&k)
KGBatchRem(p, k) ==
    /\ pc[p] = "batch"
    /\ Len(kg[p].log) < MaxBatch
    /\ kg' = [kg EXCEPT ![p].batch = BatchRemove(@, T2, k),
                        ![p].log = Append(@, <<k, None>>)]
    /\ UNCHANGED <<store, counter, pc, tx, issued, nops, commits, last, bmap, vmap>>

\* KeyGeneratingTree::apply_batch(batch)
KGApply(p) ==
    /\ pc[p] = "batch"
    /\ LET st == [store EXCEPT ![T2] = TreeApplyBatch(@, kg[p].batch)]
       IN  /\ store' = st
           /\ tx' = MarkDirty(tx, p, Changed(store, st))
    /\ pc' = [pc EXCEPT ![p] = "idle"]
    /\ kg' = [kg EXCEPT ![p] = NoKg]
    /\ last' = [op |-> "apply_batch", log |-> kg[p].log]
    /\ UNCHANGED <<counter, issued, nops, commits, bmap, vmap>>

Next ==
    \/ \E p \in Procs : StartTx(p)
    \/ \E p \in Procs : Step(p)
    \/ \E p \in Procs : Commit(p)
    \/ \E p \in Procs : Retry(p)
    \/ \E p \in Procs : Abort(p)

Spec == InitSpec /\ [][Next]_vars

\* what the collections hold for the transactions: the count at X in tree0
\* and in tree1, and the counts stored in tree2
W0(st) == TreeGet(st[T0], T0, X)
W1(st) == TreeGet(st["tree1"], "tree1", X)
W2(st) == {Deserialize(st[T2][kb]) : kb \in DOMAIN st[T2]}
CountOf(o) == IF IsSome(o) THEN Unwrap(o) ELSE 0

\* C1: a transaction over (tree0, tree1, tree2) that writes one entry to each
\* is atomic: in every state a reader can observe, tree0 and tree1 hold the
\* same count x at X and tree2 holds exactly the entries of the transactions
\* 1..x, and no step makes a write visible in one or two of the three
\* collections only.
C1_AllOrNothing ==
    /\ [](/\ W0(store) = W1(store)
          /\ W2(store) = 1..CountOf(W0(store)))
    /\ [][LET c0 == store'[T0] # store[T0]
              c1 == store'["tree1"] # store["tree1"]
              c2 == store'[T2] # store[T2]
          IN  (c0 <=> c1) /\ (c1 <=> c2)]_vars

\* one transaction's three writes are visible while another has buffered two
\* of its own
W1_CommittedBesideOpen ==
    /\ W0(store) = Some(1) /\ W1(store) = Some(1) /\ W2(store) = {1}
    /\ \E q \in Procs :
          /\ pc[q] = "tx"
          /\ tx[q].wset[T0] # <<>> /\ tx[q].wset["tree1"] # <<>> /\ tx[q].wset[T2] = <<>>

\* a step of thread p itself while it is inside transaction()
OwnTxStep(p) == pc[p] = "tx" /\ (tx'[p].calls # tx[p].calls \/ pc'[p] # pc[p])

\* the step in which transaction() returns the closure's Abort
AbortStep(p) == OwnTxStep(p) /\ pc'[p] = "idle" /\ store' = store /\ commits' = commits

\* C9: when an entry the closure read or wrote was changed by another writer
\* since the attempt began, the attempt's writes are discarded and the closure
\* is invoked again with fresh views (nothing buffered, nothing read); the
\* writes that become visible are those of one invocation that read the state
\* it commits on.  Transactions that each read x and write x + 1 leave x
\* equal to the number of commits.
C9_RetryOnConflict ==
    /\ [](CountOf(W0(store)) = commits)
    /\ [][\A p \in Procs :
            (AtReturn(p) /\ OwnTxStep(p) /\ ~AbortStep(p)) =>
                IF Valid(tx[p])
                THEN /\ tx[p].reg = W0(store)
                     /\ W0(store') = Some(CountOf(W0(store)) + 1)
                     /\ commits' = commits + 1
                     /\ pc'[p] = "idle"
                ELSE /\ store' = store /\ commits' = commits
                     /\ pc'[p] = "tx"
                     /\ tx'[p].calls = tx[p].calls + 1
                     /\ tx'[p].pos = 1 /\ tx'[p].reg = None
                     /\ tx'[p].wset = EmptyW /\ tx'[p].rset = EmptyR]_vars

\* two threads ran one transaction each, both committed, and the closure was
\* invoked three times (three keys drawn): x is 2
W9_BothCommittedOneRetry ==
    /\ \A p \in Procs : nops[p] = 1 /\ pc[p] = "idle"
    /\ commits = 2 /\ W0(store) = Some(2)
    /\ counter = 3

----------------------------------------------------------------------------
(* Threads drawing keys from the one Counter of tree2 in every way the     *)
(* handle offers.                                                          *)

\* the closure of KeyGeneratingTree::transaction: reads key 0, then inserts
\* under a generated key
KGProg == <<Call("get", T2, 0, 0), Call("kg_insert_inc", T2, 0, 0), ReturnEither(7)>>

StartKGTx(p) ==
    /\ CanCallKG(p)
    /\ TxBegin(p, KGProg)
    /\ Called(p)
    /\ UNCHANGED <<commits, last>>

NextKeys ==
    \/ \E p \in Procs : StartKGTx(p)
    \/ \E p \in Procs : Step(p)
    \/ \E p \in Procs : Commit(p)
    \/ \E p \in Procs : Retry(p)
    \/ \E p \in Procs : Abort(p)
    \/ \E p \in Procs : KGInsert(p)
    \/ \E p \in Procs : KGInsertFn(p)
    \/ \E p \in Procs : KGPut(p)
    \/ \E p \in Procs : KGNextKey(p)
    \/ \E p \in Procs : KGNewBatch(p)
    \/ \E p \in Procs : KGBatchIns(p)
    \/ \E p \in Procs : KGApply(p)

SpecKeys == InitSpec /\ [][NextKeys]_vars

\* the keys tree2 holds or that are buffered for it
KeysInUse ==
    {Deserialize(kb) : kb \in DOMAIN store[T2]}
        \cup UNION {{Deserialize(kb) : kb \in DOMAIN tx[p].wset[T2]} : p \in Procs}
        \cup UNION {BatchKeysTyped(kg[p].log) : p \in Procs}
        \cup {kg[p].key : p \in {q \in Procs : pc[q] = "put"}}

\* C2: no key is issued twice by the Counter of one KeyGeneratingTree, over
\* insert, insert_fn, next_key, batch insert and transactional insert by any
\* thread, attempts that are retried or aborted included: every draw is one
\* fetch-and-increment, so the keys issued are pairwise distinct, and every
\* key in use was issued.
C2_KeysDistinct ==
    /\ \A i \in 1..Len(issued) : \A j \in 1..Len(issued) : i # j => issued[i] # issued[j]
    /\ Len(issued) = counter
    /\ KeysInUse \subseteq {issued[i] : i \in 1..Len(issued)}

\* a transaction on its second invocation has drawn the third key, after an
\* insert by the other thread changed the entry it had read
W2_KeyDrawnInRetry ==
    /\ Len(issued) = 3
    /\ \E p \in Procs : pc[p] = "tx" /\ tx[p].calls = 2 /\ tx[p].pos = 3
    /\ TreeGet(store[T2], T2, 0) = Some(InsertVal)

----------------------------------------------------------------------------
(* Threads building and applying batches on tree2 while others insert.     *)

NextBatch ==
    \/ \E p \in Procs : KGNewBatch(p)
    \/ \E p \in Procs : KGBatchIns(p)
    \/ \E p \in Procs, k \in RemoveKeys : KGBatchRem(p, k)
    \/ \E p \in Procs : KGApply(p)
    \/ \E p \in Procs : KGInsert(p)
    \/ \E p \in Procs : KGPut(p)

SpecBatch == InitSpec /\ [][NextBatch]_vars

\* the entries of a batch issued one by one, in order, as insert / remove calls
RECURSIVE ApplyOneByOne(_, _, _)
ApplyOneByOne(m, t, es) ==
    IF es = <<>> THEN m
    ELSE LET e == Head(es)
             m1 == IF IsSome(e[2]) THEN TreeInsert(m, t, e[1], Unwrap(e[2])).map
                   ELSE TreeRemove(m, t, e[1]).map
         IN  ApplyOneByOne(m1, t, Tail(es))

\* C7: apply_batch leaves the collection as the batch's entries, issued one by
\* one in insertion order as insert / remove calls, would (for equal keys the
\* last entry wins), in one step, so that no reader sees part of the batch;
\* new_batch, batch.insert and batch.remove leave the collection alone.
C7_BatchAsOneUnit ==
    [][\A p \in Procs :
        /\ (pc'[p] = "batch" /\ (pc[p] = "idle" \/ kg'[p] # kg[p])) => store' = store
        /\ (pc[p] = "batch" /\ pc'[p] = "idle") =>
                /\ store'[T2] = ApplyOneByOne(store[T2], T2, kg[p].log)
                /\ store'[T0] = store[T0] /\ store'["tree1"] = store["tree1"]]_vars

\* a batch of remove(0) then insert (which drew key 0) was applied: the
\* later entry won
W7_LastEntryWins ==
    /\ last.op = "apply_batch"
    /\ last.log = <<<<0, None>>, <<0, Some(BatchVal)>>>>
    /\ TreeGet(store[T2], T2, 0) = Some(BatchVal)

----------------------------------------------------------------------------
(* A CounterTree on tree2 used through insert, insert_with_key, remove and *)
(* get, beside a second handle (a plain Tree opened on the same name)      *)
(* that writes to the collection.                                          *)

WithKeys == 0..MaxInserts
WithVals == {5, 6}
GenVal == 7

\* an insert_with_key that takes a key from the generator as well
KGInsertWithKeyDraws(m, c, t, k, v) ==
    LET r == TreeInsert(m, t, k, v)
    IN  [map |-> r.map, counter |-> NextKey(c).counter, ret |-> r.ret]

\* KeyGeneratingTree::insert_with_key: self.inner.insert(key, value)
KGInsertWithKey(m, c, t, k, v) ==
    LET r == TreeInsert(m, t, k, v)
    IN  [map |-> r.map, counter |-> c, ret |-> r.ret]

InitWithKey ==
    /\ store = InitStore
    /\ counter = CounterInitialize(InitStore[T2])
    /\ InitThreads
    /\ last = [op |-> "open"]
    /\ bmap = <<>>
    /\ vmap = <<>>

\* tree.insert(&value)
WKInsert ==
    /\ counter < MaxInserts
    /\ LET r == KGTreeInsert(store[T2], counter, T2, GenVal)
       IN  /\ store' = [store EXCEPT ![T2] = r.map]
           /\ counter' = r.counter
           /\ last' = [op |-> "insert", key |-> r.ret[1], val |-> GenVal, ret |-> r.ret]
    /\ UNCHANGED <<threadVars, bmap, vmap>>

\* tree.insert_with_key(&k, &v)
WKInsertWithKey(k, v) ==
    /\ LET r == KGInsertWithKey(store[T2], counter, T2, k, v)
       IN  /\ store' = [store EXCEPT ![T2] = r.map]
           /\ counter' = r.counter
           /\ last' = [op |-> "insert_with_key", key |-> k, val |-> v, ret |-> r.ret]
    /\ UNCHANGED <<threadVars, bmap, vmap>>

\* tree.remove(&k), through Deref to the inner Tree
WKRemove(k) ==
    /\ LET r == TreeRemove(store[T2], T2, k)
       IN  /\ store' = [store EXCEPT ![T2] = r.map]
           /\ last' = [op |-> "remove", key |-> k, val |-> 0, ret |-> r.ret]
    /\ UNCHANGED <<counter, threadVars, bmap, vmap>>

\* tree.get(&k), through Deref to the inner Tree
WKGet(k) ==
    /\ last' = [op |-> "get", key |-> k, val |-> 0, ret |-> TreeGet(store[T2], T2, k)]
    /\ UNCHANGED <<store, counter, threadVars, bmap, vmap>>

\* Tree::open(&db, "tree2").insert(&k, &v): a write through another handle
WKOtherInsert(k, v) ==
    /\ LET r == TreeInsert(store[T2], T2, k, v)
       IN  /\ store' = [store EXCEPT ![T2] = r.map]
           /\ last' = [op |-> "other_insert", key |-> k, val |-> v, ret |-> r.ret]
    /\ UNCHANGED <<counter, threadVars, bmap, vmap>>

NextWithKey ==
    \/ WKInsert
    \/ \E k \in WithKeys, v \in WithVals : WKInsertWithKey(k, v)
    \/ \E k \in WithKeys : WKRemove(k)
    \/ \E k \in WithKeys : WKGet(k)
    \/ \E k \in WithKeys, v \in WithVals : WKOtherInsert(k, v)

SpecWithKey == InitWithKey /\ [][NextWithKey]_vars

\* C11: only a generated insert moves the counter: insert_with_key, remove,
\* get and a write through another handle leave it alone, so the next
\* generated key is what it was; a generated insert uses the counter's value
\* as its key and returns what was stored there, so after
\* insert_with_key(k, v) with k the next key it overwrites k and returns
\* Some(v).
C11_OnlyDrawsMoveCounter ==
    [][/\ last'.op \in {"insert_with_key", "remove", "get", "other_insert"} =>
            counter' = counter
       /\ last'.op = "insert" =>
            /\ counter' = counter + 1
            /\ last'.ret = <<counter, TreeGet(store[T2], T2, counter)>>
            /\ TreeGet(store'[T2], T2, counter) = Some(GenVal)
       /\ (last.op = "insert_with_key" /\ last.key = counter /\ last'.op = "insert") =>
            last'.ret = <<last.key, Some(last.val)>>]_vars

\* insert_with_key(1, 5) while the next key was 1, then insert returned
\* (1, Some(5)) and stored its own value at 1
W11_GeneratedInsertOverwrites ==
    /\ last.op = "insert" /\ last.ret = <<1, Some(5)>>
    /\ counter = 2
    /\ TreeGet(store[T2], T2, 1) = Some(GenVal)

----------------------------------------------------------------------------
(* Merge on tree0 as a Tree<u32, Vec<u32>> with a registered merge         *)
(* operator.  bincode writes a Vec as its length (u64, little-endian) and  *)
(* then its elements.                                                      *)

MaxVec == 3

RECURSIVE SerializeElems(_)
SerializeElems(xs) ==
    IF xs = <<>> THEN <<>> ELSE LEBytes(Head(xs), 4) \o SerializeElems(Tail(xs))

\* BincodeSerializer::serialize for a Vec<u32>
SerializeVec(xs) == LEBytes(Len(xs), 8) \o SerializeElems(xs)

\* BincodeDeserializer::deserialize for a Vec<u32>
DeserializeVec(bytes) ==
    [i \in 1..FromLE(SubSeq(bytes, 1, 8)) |-> FromLE(SubSeq(bytes, 5 + 4 * i, 8 + 4 * i))]

MapDeserializeVec(opt) == IF IsSome(opt) THEN Some(DeserializeVec(Unwrap(opt))) ELSE None

\* a merge operator that replaces the old value by the operand
MergeFnReplace(k, old, x) == IF x = <<>> THEN None ELSE Some(x)

\* the registered operator: concatenate_merge of the documentation, except
\* that merging the empty vector deletes the key (returns None)
MergeFn(k, old, x) ==
    IF x = <<>> THEN None
    ELSE Some((IF IsSome(old) THEN Unwrap(old) ELSE <<>>) \o x)

TreeGetVec(m, t, k) == MapDeserializeVec(SledGet(m, Serialize(k, KeyWidth(t))))

TreeInsertVec(m, t, k, v) ==
    LET kb == Serialize(k, KeyWidth(t))
    IN  [map |-> SledInsert(m, kb, SerializeVec(v)), ret |-> MapDeserializeVec(SledGet(m, kb))]

\* Tree::merge: the engine calls the registered operator with the decoded
\* key, the decoded current value and the decoded operand, and stores the
\* encoded result (None: deletes the key)
TreeMerge(m, t, k, x) ==
    LET kb == Serialize(k, KeyWidth(t))
        old == MapDeserializeVec(SledGet(m, kb))
        res == MergeFn(Deserialize(kb), old, DeserializeVec(SerializeVec(x)))
    IN  [map |-> SledSet(m, kb, IF IsSome(res) THEN Some(SerializeVec(Unwrap(res))) ELSE None),
         ret |-> res]

MergeKeys == {1, 2}
MergeInserts == {<<0>>, <<3>>}
MergeOperands == {<<>>, <<1>>, <<2>>}

InitMerge ==
    /\ store = InitStore
    /\ counter = 0
    /\ InitThreads
    /\ last = [op |-> "open"]
    /\ bmap = [k \in MergeKeys |-> None]
    /\ vmap = [k \in MergeKeys |-> None]

MInsert(k, v) ==
    /\ store' = [store EXCEPT ![T0] = TreeInsertVec(@, T0, k, v).map]
    /\ last' = [op |-> "insert", key |-> k, val |-> v]
    /\ bmap' = [bmap EXCEPT ![k] = Some(v)]
    /\ vmap' = bmap'
    /\ UNCHANGED <<counter, threadVars>>

MMerge(k, x) ==
    /\ Len(IF IsSome(bmap[k]) THEN Unwrap(bmap[k]) ELSE <<>>) + Len(x) <= MaxVec
    /\ store' = [store EXCEPT ![T0] = TreeMerge(@, T0, k, x).map]
    /\ last' = [op |-> "merge", key |-> k, val |-> x]
    /\ bmap' = [bmap EXCEPT ![k] = IF x = <<>> THEN None
                                   ELSE Some((IF IsSome(@) THEN Unwrap(@) ELSE <<>>) \o x)]
    /\ vmap' = bmap'
    /\ UNCHANGED <<counter, threadVars>>

MRemove(k) ==
    /\ store' = [store EXCEPT ![T0] = SledRemove(@, Serialize(k, KeyWidth(T0)))]
    /\ last' = [op |-> "remove", key |-> k, val |-> <<>>]
    /\ bmap' = [bmap EXCEPT ![k] = None]
    /\ vmap' = bmap'
    /\ UNCHANGED <<counter, threadVars>>

NextMerge ==
    \/ \E k \in MergeKeys, v \in MergeInserts : MInsert(k, v)
    \/ \E k \in MergeKeys, x \in MergeOperands : MMerge(k, x)
    \/ \E k \in MergeKeys : MRemove(k)

SpecMerge == InitMerge /\ [][NextMerge]_vars

\* C12: with the operator registered, merge(k, x) stores the operator's
\* result for (k, current value or None, x): here the current value (empty
\* when k is absent) followed by x, and the key is deleted when the operator
\* returns None (x empty); insert(k, v) stores v whatever was merged before;
\* no call changes another key.
C12_MergeStoresResult ==
    /\ [](\A k \in MergeKeys : TreeGetVec(store[T0], T0, k) = bmap[k])
    /\ [][LET k == last'.key
              old == TreeGetVec(store[T0], T0, k)
              new == TreeGetVec(store'[T0], T0, k)
          IN  /\ last'.op = "merge" =>
                    IF last'.val = <<>> THEN new = None
                    ELSE new = Some((IF IsSome(old) THEN Unwrap(old) ELSE <<>>) \o last'.val)
              /\ last'.op = "insert" => new = Some(last'.val)
              /\ \A k2 \in MergeKeys \ {k} :
                    TreeGetVec(store'[T0], T0, k2) = TreeGetVec(store[T0], T0, k2)]_vars

\* the documentation's run: insert(k, [0]), merge(k, [1]), merge(k, [2])
W12_Concatenated ==
    /\ last.op = "merge" /\ last.key = 1 /\ last.val = <<2>>
    /\ TreeGetVec(store[T0], T0, 1) = Some(<<0, 1, 2>>)

----------------------------------------------------------------------------
(* JoinTree (join.rs): the source is tree0 as a Tree<u32, Vec<u32>> whose  *)
(* value lists the destination keys it refers to; the destination is       *)
(* tree1.                                                                  *)

MaxRefs == 2

TDest == "tree1"

\* JoinKeys::keys: the destination keys of a source value, in order
JoinKeys(src) == src

\* a resolution that gives up at the first destination key that is missing
RECURSIVE JoinValuesUntilMissing(_, _)
JoinValuesUntilMissing(dest, ks) ==
    IF ks = <<>> THEN <<>>
    ELSE LET value == TreeGet(dest, TDest, Head(ks))
         IN  IF IsSome(value)
             THEN <<<<Head(ks), Unwrap(value)>>>> \o JoinValuesUntilMissing(dest, Tail(ks))
             ELSE <<>>

\* get: for key in keys(&src) { if let Some(value) = dest.get(key) { push } }
RECURSIVE JoinValues(_, _)
JoinValues(dest, ks) ==
    IF ks = <<>> THEN <<>>
    ELSE LET value == TreeGet(dest, TDest, Head(ks))
         IN  (IF IsSome(value) THEN <<<<Head(ks), Unwrap(value)>>>> ELSE <<>>)
                \o JoinValues(dest, Tail(ks))

\* JoinTree::get
JoinGet(srcm, dest, key) ==
    LET src == TreeGetVec(srcm, T0, key)
    IN  IF IsSome(src)
        THEN Some(<<Unwrap(src), JoinValues(dest, JoinKeys(Unwrap(src)))>>)
        ELSE None

\* rows whose source value is that of the row before
RECURSIVE JoinRowsNoSource(_, _, _)
JoinRowsNoSource(dest, src, ks) ==
    IF ks = <<>> THEN <<>>
    ELSE LET value == TreeGet(dest, TDest, Head(ks))
         IN  (IF IsSome(value) THEN <<<<Tail(src), Head(ks), Unwrap(value)>>>> ELSE <<>>)
                \o JoinRowsNoSource(dest, src, Tail(ks))

\* get_flat: ... values.push((Arc::clone(&src), (*key).clone(), value))
RECURSIVE JoinRows(_, _, _)
JoinRows(dest, src, ks) ==
    IF ks = <<>> THEN <<>>
    ELSE LET value == TreeGet(dest, TDest, Head(ks))
         IN  (IF IsSome(value) THEN <<<<src, Head(ks), Unwrap(value)>>>> ELSE <<>>)
                \o JoinRows(dest, src, Tail(ks))

\* JoinTree::get_flat
JoinGetFlat(srcm, dest, key) ==
    LET src == TreeGetVec(srcm, T0, key)
    IN  IF IsSome(src) THEN JoinRows(dest, Unwrap(src), JoinKeys(Unwrap(src))) ELSE <<>>

SrcKeys == {1, 2}
DestKeys == {1, 2}
DestVals == {7, 8}
\* source values: up to MaxRefs destination keys, repeats allowed
SrcVals == UNION {[1..n -> DestKeys] : n \in 0..MaxRefs}

InitJoin ==
    /\ store = InitStore
    /\ counter = 0
    /\ InitThreads
    /\ last = [op |-> "open"]
    /\ bmap = <<>>
    /\ vmap = <<>>

JSrcInsert(k, refs) ==
    /\ store' = [store EXCEPT ![T0] = TreeInsertVec(@, T0, k, refs).map]
    /\ last' = [op |-> "src_insert", key |-> k]
    /\ UNCHANGED <<counter, threadVars, bmap, vmap>>

JSrcRemove(k) ==
    /\ store' = [store EXCEPT ![T0] = SledRemove(@, Serialize(k, KeyWidth(T0)))]
    /\ last' = [op |-> "src_remove", key |-> k]
    /\ UNCHANGED <<counter, threadVars, bmap, vmap>>

JDestInsert(d, v) ==
    /\ store' = [store EXCEPT ![TDest] = TreeInsert(@, TDest, d, v).map]
    /\ last' = [op |-> "dest_insert", key |-> d]
    /\ UNCHANGED <<counter, threadVars, bmap, vmap>>

JDestRemove(d) ==
    /\ store' = [store EXCEPT ![TDest] = TreeRemove(@, TDest, d).map]
    /\ last' = [op |-> "dest_remove", key |-> d]
    /\ UNCHANGED <<counter, threadVars, bmap, vmap>>

JGet(k) ==
    /\ last' = [op |-> "get", key |-> k, ret |-> JoinGet(store[T0], store[TDest], k)]
    /\ UNCHANGED <<store, counter, threadVars, bmap, vmap>>

JGetFlat(k) ==
    /\ last' = [op |-> "get_flat", key |-> k, ret |-> JoinGetFlat(store[T0], store[TDest], k)]
    /\ UNCHANGED <<store, counter, threadVars, bmap, vmap>>

NextJoin ==
    \/ \E k \in SrcKeys, refs \in SrcVals : JSrcInsert(k, refs)
    \/ \E k \in SrcKeys : JSrcRemove(k)
    \/ \E d \in DestKeys, v \in DestVals : JDestInsert(d, v)
    \/ \E d \in DestKeys : JDestRemove(d)
    \/ \E k \in SrcKeys : JGet(k)
    \/ \E k \in SrcKeys : JGetFlat(k)

SpecJoin == InitJoin /\ [][NextJoin]_vars

\* what the collections hold
SrcAt(k) == TreeGetVec(store[T0], T0, k)
DestAt(d) == TreeGet(store[TDest], TDest, d)

\* the positions of a source value whose destination key is present
Resolved(ks) == {i \in 1..Len(ks) : IsSome(DestAt(ks[i]))}

\* the j-th of them
NthResolved(ks, j) ==
    CHOOSE i \in Resolved(ks) : Cardinality({i2 \in Resolved(ks) : i2 <= i}) = j

\* C13: get(key) returns None when key is absent from the source; otherwise
\* the source value and exactly the pairs (d, destination value of d) for the
\* extracted keys d present in the destination, in extractor order; a missing
\* destination key is skipped.
C13_JoinGet ==
    last.op = "get" =>
        IF SrcAt(last.key) = None THEN last.ret = None
        ELSE LET ks == Unwrap(SrcAt(last.key))
                 pairs == Unwrap(last.ret)[2]
             IN  /\ IsSome(last.ret)
                 /\ Unwrap(last.ret)[1] = ks
                 /\ Len(pairs) = Cardinality(Resolved(ks))
                 /\ \A j \in 1..Len(pairs) :
                        pairs[j] = <<ks[NthResolved(ks, j)],
                                     Unwrap(DestAt(ks[NthResolved(ks, j)]))>>

\* the source value refers to [2, 1], 2 is absent from the destination: one
\* pair, for 1
W13_MissingSkipped ==
    /\ last.op = "get" /\ SrcAt(last.key) = Some(<<2, 1>>)
    /\ DestAt(2) = None /\ DestAt(1) = Some(7)
    /\ last.ret = Some(<<<<2, 1>>, <<<<1, 7>>>>>>)

\* C14: get_flat(key) returns one row (source value, destination key,
\* destination value) for each pair get(key) resolves, in the same order,
\* every row with the same source value, and no row when the source key is
\* absent or no extracted key is present.
C14_GetFlatAsGet ==
    last.op = "get_flat" =>
        LET got == JoinGet(store[T0], store[TDest], last.key)
        IN  IF got = None THEN last.ret = <<>>
            ELSE /\ Len(last.ret) = Len(Unwrap(got)[2])
                 /\ \A j \in 1..Len(last.ret) :
                        last.ret[j] = <<Unwrap(got)[1], Unwrap(got)[2][j][1],
                                        Unwrap(got)[2][j][2]>>

\* two rows, both carrying the source value [1, 2]
W14_TwoRows ==
    /\ last.op = "get_flat"
    /\ last.ret = <<<<<<1, 2>>, 1, 7>>, <<<<1, 2>>, 2, 8>>>>

----------------------------------------------------------------------------
(* Iter<K, V> driven from both ends: an open range iterator over tree0     *)
(* (keys and bounds as for the range queries above).  last holds the       *)
(* iterator: the raw entries it has yet to yield (it), what next yielded   *)
(* (front) and what next_back yielded (back), in call order, and whether   *)
(* it has returned None.                                                   *)

\* a next_back that takes the entry at the near end
IterNextBackFromFront(it) ==
    IF it = <<>> THEN [item |-> None, rest |-> <<>>]
    ELSE [item |-> Some(DecodeItem(Head(it))), rest |-> Tail(it)]

\* Iter::next_back: self.inner.next_back().map(decode)
IterNextBack(it) ==
    IF it = <<>> THEN [item |-> None, rest |-> <<>>]
    ELSE [item |-> Some(DecodeItem(it[Len(it)])), rest |-> SubSeq(it, 1, Len(it) - 1)]

IsIter(l) == l.op \in {"range", "next", "next_back"}

\* let mut iter = tree.range(lo..hi)
ItRange(lo, hi) ==
    /\ last' = [op |-> "range", lo |-> lo, hi |-> hi, it |-> TreeRange(store[T0], T0, lo, hi),
                front |-> <<>>, back |-> <<>>, none |-> FALSE]
    /\ UNCHANGED <<store, counter, threadVars, bmap, vmap>>

\* iter.next()
ItNext ==
    /\ IsIter(last) /\ ~last.none
    /\ LET r == IterNext(last.it)
       IN  last' = [last EXCEPT !.op = "next", !.it = r.rest,
                                !.front = @ \o r.item, !.none = ~IsSome(r.item)]
    /\ UNCHANGED <<store, counter, threadVars, bmap, vmap>>

\* iter.next_back()
ItNextBack ==
    /\ IsIter(last) /\ ~last.none
    /\ LET r == IterNextBack(last.it)
       IN  last' = [last EXCEPT !.op = "next_back", !.it = r.rest,
                                !.back = @ \o r.item, !.none = ~IsSome(r.item)]
    /\ UNCHANGED <<store, counter, threadVars, bmap, vmap>>

NextIter ==
    \/ \E k \in RangeKeys : ~IsIter(last) /\ RangeInsert(k)
    \/ \E lo \in RangeBounds, hi \in RangeBounds : ItRange(lo, hi)
    \/ ItNext
    \/ ItNextBack

SpecIter == InitRange /\ [][NextIter]_vars

\* the stored keys whose encoded bytes lie within the encoded bounds
InByteRange(lo, hi) ==
    {k \in Stored(bmap) : ByteRank(lo) <= ByteRank(k) /\ ByteRank(k) < ByteRank(hi)}

Reverse(s) == [i \in 1..Len(s) |-> s[Len(s) + 1 - i]]
IsPrefix(s, t) == Len(s) <= Len(t) /\ SubSeq(t, 1, Len(s)) = s

\* C15: a range iterator yields stored entries whose encoded key lies within
\* the encoded bounds: by next in ascending order of the encoded key bytes,
\* by next_back in descending order; under any mix of the two no entry is
\* yielded twice, and it ends (returns None) once every entry of the range
\* has been yielded.
C15_DoubleEnded ==
    IsIter(last) =>
        LET all == SortedBy(bmap, InByteRange(last.lo, last.hi), "bytes")
        IN  /\ IsPrefix(last.front, all)
            /\ IsPrefix(last.back, Reverse(all))
            /\ Len(last.front) + Len(last.back) <= Len(all)
            /\ Len(last.it) = Len(all) - Len(last.front) - Len(last.back)
            /\ last.none => Len(last.front) + Len(last.back) = Len(all)

\* keys {1, 3, 256}, range(0..300): next gave 256 (bytes 00 01 ..), next_back
\* gave 3, next gave 1, and the next call returned None
W15_MixedEnds ==
    /\ IsIter(last) /\ last.none
    /\ last.front = <<<<256, 2>>, <<1, 2>>>>
    /\ last.back = <<<<3, 4>>>>

----------------------------------------------------------------------------
(* The serialization strategies of custom_serde/serialize.rs: a key or a   *)
(* value is encoded by the strategy's serializer and the bytes are handed  *)
(* to its deserializer, which decodes them at once (BincodeDeserializer)   *)
(* or wraps them in a Lazy handle that is decoded on demand.  Typed values *)
(* are records [ty, v]: an integer of 2, 4 or 8 bytes, or a Vec<u32>.      *)

MaxReads == 2

Strategies == {"BincodeSerDe", "BincodeSerDeLazy", "BincodeSerDeLazyK", "BincodeSerDeLazyV"}

Roles == {"key", "value"}

\* type SK = BincodeSerializer in every strategy
SK(sd) == "BincodeSerializer"

\* type SV = BincodeSerializer in every strategy
SV(sd) == "BincodeSerializer"

\* type DK of the strategy
DK(sd) ==
    IF sd \in {"BincodeSerDeLazy", "BincodeSerDeLazyK"}
    THEN "BincodeDeserializerLazy" ELSE "BincodeDeserializer"

\* type DV of the strategy
DV(sd) ==
    IF sd \in {"BincodeSerDeLazy", "BincodeSerDeLazyV"}
    THEN "BincodeDeserializerLazy" ELSE "BincodeDeserializer"

IntWidth(ty) == CASE ty = "u16" -> 2 [] ty = "u32" -> 4 [] ty = "u64" -> 8

IntVals == {0, 1, 255, 256, 257, 65535}

VecVals == UNION {[1..n -> {0, 256}] : n \in 0..(MaxVec - 1)}

SerDeInts == {[ty |-> ty, v |-> v] : ty \in {"u16", "u32", "u64"}, v \in IntVals}

SerDeVecs == {[ty |-> "vec", v |-> v] : v \in VecVals}

\* BincodeSerializer::serialize: bincode::serialize(value)
BincodeSerialize(x) ==
    IF x.ty = "vec" THEN SerializeVec(x.v) ELSE Serialize(x.v, IntWidth(x.ty))

\* bincode::deserialize::<T>(&bytes)
BincodeDeserialize(ty, bytes) ==
    [ty |-> ty, v |-> IF ty = "vec" THEN DeserializeVec(bytes) ELSE Deserialize(bytes)]

\* Lazy::new: the handle owns the bytes and remembers the target type
LazyNew(bytes, ty) == [v |-> bytes, t |-> ty]

\* a Lazy::deserialize that skips the first byte of the buffer
LazyDeserializeTail(l) == BincodeDeserialize(l.t, Tail(l.v))

\* Lazy::deserialize: bincode::deserialize(&self.v)
LazyDeserialize(l) == BincodeDeserialize(l.t, l.v)

\* Deserializer::deserialize of the deserializer d
DeserializerDeserialize(d, ty, bytes) ==
    IF d = "BincodeDeserializerLazy" THEN LazyNew(bytes, ty) ELSE BincodeDeserialize(ty, bytes)

InitSerDe ==
    /\ store = InitStore
    /\ counter = 0
    /\ InitThreads
    /\ last = [op |-> "open"]
    /\ bmap = <<>>
    /\ vmap = <<>>

\* SK::serialize(&x) or SV::serialize(&x), then DK::deserialize / DV::deserialize
\* of the bytes
SDEncodeDecode(sd, role, x) ==
    LET s == IF role = "key" THEN SK(sd) ELSE SV(sd)
        d == IF role = "key" THEN DK(sd) ELSE DV(sd)
        bytes == BincodeSerialize(x)
    IN  /\ s = "BincodeSerializer"
        /\ last' = [op |-> "serde", sd |-> sd, role |-> role, x |-> x, bytes |-> bytes,
                    d |-> d, target |-> DeserializerDeserialize(d, x.ty, bytes),
                    reads |-> <<>>]
        /\ UNCHANGED <<store, counter, threadVars, bmap, vmap>>

\* l.deserialize() on the handle the deserializer returned
SDLazyDeserialize ==
    /\ last.op = "serde"
    /\ last.d = "BincodeDeserializerLazy"
    /\ Len(last.reads) < MaxReads
    /\ last' = [last EXCEPT !.reads = Append(@, LazyDeserialize(last.target))]
    /\ UNCHANGED <<store, counter, threadVars, bmap, vmap>>

NextSerDe ==
    \/ \E sd \in Strategies, role \in Roles, x \in SerDeInts : SDEncodeDecode(sd, role, x)
    \/ \E sd \in Strategies, role \in Roles, x \in SerDeVecs : SDEncodeDecode(sd, role, x)
    \/ SDLazyDeserialize

SpecSerDe == InitSerDe /\ [][NextSerDe]_vars

\* which deserializer the claim expects for a strategy and a role
LazyRole(sd, role) ==
    \/ sd = "BincodeSerDeLazy"
    \/ sd = "BincodeSerDeLazyK" /\ role = "key"
    \/ sd = "BincodeSerDeLazyV" /\ role = "value"

\* C16: for each of the four strategies and every key or value x, decoding
\* the encoding of x gives x back: the eager deserializer returns x itself,
\* the lazy one returns a handle that holds exactly the encoded bytes, and
\* every call of Lazy::deserialize on that handle returns x.
C16_RoundTrip ==
    last.op = "serde" =>
        /\ last.bytes = BincodeSerialize(last.x)
        /\ (last.d = "BincodeDeserializerLazy") = LazyRole(last.sd, last.role)
        /\ IF LazyRole(last.sd, last.role)
           THEN /\ last.target.v = last.bytes
                /\ \A i \in 1..Len(last.reads) : last.reads[i] = last.x
           ELSE last.target = last.x

\* a lazily decoded value above 255 has been read twice from one handle
W16_LazyReadTwice ==
    /\ last.op = "serde"
    /\ last.sd = "BincodeSerDeLazyV" /\ last.role = "value"
    /\ last.x.ty = "vec" /\ last.x.v = <<256, 0>>
    /\ Len(last.reads) = 2
    /\ last.reads[2] = last.x

----------------------------------------------------------------------------
(* Transactions over tuples: impl_transactional hands the raw handles of   *)
(* the tuple's trees to the engine, gets one transactional tree per handle *)
(* back, and pairs the i-th of them with the i-th typed tree to build view *)
(* i.  The closure makes two calls, each on one view by its position, and  *)
(* decides on each call when it gets there; tree2 is the KeyGeneratingTree,*)
(* whose view only inserts under generated keys.  last holds the tuple of  *)
(* the transaction and the call made last.                                 *)

MaxDraws == 1

ViewKeys == {1}

ViewVals == {5}

\* the tuples of one, two or three distinct trees, in any order
Tuples ==
    {tup \in UNION {[1..n -> Trees] : n \in 1..Cardinality(Trees)} :
        \A i, j \in 1..Len(tup) : i # j => tup[i] # tup[j]}

\* TreeMeta::inner: the raw handle of a typed tree
Inner(t) == t

\* ( $($Type.inner()),+, ): what the engine's transaction is called on; the
\* engine hands the closure one transactional tree per handle, in this order
Inners(tup) == [i \in 1..Len(tup) |-> Inner(tup[i])]

\* views that pair the typed trees with the engine's trees in reverse order
ViewsReversed(tup, vs) ==
    [i \in 1..Len(tup) |-> [tree |-> tup[i], view |-> vs[Len(tup) + 1 - i]]]

\* ( $($Type::TransactionView::view($Type, [<$Type _var>])),+, )
Views(tup, vs) == [i \in 1..Len(tup) |-> [tree |-> tup[i], view |-> vs[i]]]

\* a call of the closure on its i-th view
CallOn(i, c) ==
    [op |-> c.op, t |-> c.t, k |-> c.k, v |-> c.v, batch |-> c.batch, abort |-> c.abort,
     may |-> c.may, i |-> i]

\* the calls the view of tree t offers
CallsOfView(t) ==
    IF t = T2 THEN {Call("kg_insert_inc", t, 0, 0)}
    ELSE {Call("get", t, k, 0) : k \in ViewKeys}
            \cup {Call("remove", t, k, 0) : k \in ViewKeys}
            \cup {Call("insert", t, k, v) : k \in ViewKeys, v \in ViewVals}
            \cup {CallBatch(t, <<<<2, Some(5)>>, <<1, None>>>>)}

TupleCalls(tup) == UNION {{CallOn(i, c) : c \in CallsOfView(tup[i])} : i \in 1..Len(tup)}

\* a call the closure decides on when it gets there
AnyCall == Call("call", "", 0, 0)

\* closures of two calls
TupleProg == <<AnyCall, AnyCall, ReturnEither(7)>>

InitViews ==
    /\ store = InitStore
    /\ counter = 0
    /\ InitThreads
    /\ last = [op |-> "open", tuple |-> <<>>]
    /\ bmap = <<>>
    /\ vmap = <<>>

\* (&A, &B, ...).transaction(f)
TupleTransaction(tup) ==
    /\ TxBegin(Main, TupleProg)
    /\ last' = [op |-> "transaction", tuple |-> tup]
    /\ UNCHANGED <<nops, commits>>

\* the closure makes its next call, on the view at position ins.i
TupleViewCall(ins) ==
    /\ pc[Main] = "tx"
    /\ tx[Main].prog[tx[Main].pos].op # "return"
    /\ ins.op = "kg_insert_inc" => counter < MaxDraws
    /\ LET x == tx[Main]
           vw == Views(last.tuple, Inners(last.tuple))[ins.i]
           r == ViewCall(store[vw.view], x.wset[vw.view], counter, x.reg,
                         [ins EXCEPT !.t = vw.tree])
           st == [store EXCEPT ![vw.view] = r.view.map]
           own == [x EXCEPT !.pos = @ + 1,
                            !.wset[vw.view] = r.view.wset,
                            !.rset[vw.view] = @ \cup r.view.read,
                            !.ret = r.view.ret,
                            !.reg = IF ins.op = "get" THEN r.view.ret ELSE @]
       IN  /\ store' = st
           /\ counter' = r.counter
           /\ tx' = MarkDirty([tx EXCEPT ![Main] = own], Main, Changed(store, st))
           /\ issued' = issued \o r.drawn
    /\ last' = [op |-> "call", tuple |-> last.tuple, ins |-> ins]
    /\ UNCHANGED <<pc, kg, nops, commits, bmap, vmap>>

TupleCommit ==
    /\ TxCommit(Main)
    /\ last' = [op |-> "committed", tuple |-> last.tuple]
    /\ UNCHANGED <<nops, commits>>

TupleAbort ==
    /\ TxAbort(Main)
    /\ last' = [op |-> "aborted", tuple |-> last.tuple]
    /\ UNCHANGED <<nops, commits>>

NextViews ==
    \/ \E tup \in Tuples : TupleTransaction(tup)
    \/ \E ins \in TupleCalls(last.tuple) : TupleViewCall(ins)
    \/ TupleCommit
    \/ TupleAbort

SpecViews == InitViews /\ [][NextViews]_vars

TupleTrees(tup) == {tup[i] : i \in 1..Len(tup)}

\* the closure has just made the call at position pos of its list
ViewCallStep == pc[Main] = "tx" /\ tx'[Main].pos = tx[Main].pos + 1

\* what the view of tree t shows under key k before the step
Shown(t, k) ==
    MapDeserialize(StxGet(store[t], tx[Main].wset[t], Serialize(k, KeyWidth(t))))

\* what the view of tree t shows under key k after the step
ShownAfter(t, k) ==
    MapDeserialize(StxGet(store'[t], tx'[Main].wset[t], Serialize(k, KeyWidth(t))))

\* the effect of the call ins on the collection t it was made for
OwnEffect(ins, t) ==
    CASE ins.op = "get" ->
            /\ tx'[Main].ret = Shown(t, ins.k)
            /\ tx'[Main].wset[t] = tx[Main].wset[t]
      [] ins.op = "insert" ->
            /\ tx'[Main].ret = Shown(t, ins.k)
            /\ ShownAfter(t, ins.k) = Some(ins.v)
      [] ins.op = "remove" ->
            /\ tx'[Main].ret = Shown(t, ins.k)
            /\ ShownAfter(t, ins.k) = None
      [] ins.op = "apply_batch" ->
            /\ ShownAfter(t, 2) = Some(5)
            /\ ShownAfter(t, 1) = None
      [] ins.op = "kg_insert_inc" ->
            /\ t = T2
            /\ counter' = counter + 1
            /\ tx'[Main].ret = Shown(T2, counter)
            /\ ShownAfter(T2, counter) = Some(RegPlusOne(tx[Main].reg))

\* C17: the closure of a transaction over a tuple of N collections gets N
\* views in the order of the tuple, view i being bound to collection i: a
\* get, insert, remove or apply_batch made through view i reads and writes
\* collection i alone and leaves every other collection as it was, and the
\* view of a KeyGeneratingTree draws its keys from that tree's generator.
C17_ViewsBoundInOrder ==
    [][/\ ViewCallStep =>
            LET tup == last.tuple
                ins == last'.ins
                t == tup[ins.i]
            IN  /\ Len(Views(tup, Inners(tup))) = Len(tup)
                /\ \A i \in 1..Len(tup) :
                        Views(tup, Inners(tup))[i] = [tree |-> tup[i], view |-> Inner(tup[i])]
                /\ OwnEffect(ins, t)
                /\ ins.op # "kg_insert_inc" => counter' = counter
                /\ store' = store
                /\ \A u \in Trees \ {t} :
                        /\ tx'[Main].wset[u] = tx[Main].wset[u]
                        /\ tx'[Main].rset[u] = tx[Main].rset[u]
      /\ \A u \in Trees :
            store'[u] # store[u] => pc[Main] = "tx" /\ u \in TupleTrees(last.tuple)
     ]_vars

\* a closure over (tree2, tree0, tree1) has drawn a key through its first
\* view and written through its third
W17_ThreeViewsTwoCalls ==
    /\ pc[Main] = "tx"
    /\ last.tuple = <<"tree2", "tree0", "tree1">>
    /\ tx[Main].pos = 3
    /\ DOMAIN tx[Main].wset["tree2"] # {}
    /\ DOMAIN tx[Main].wset["tree1"] # {}
    /\ DOMAIN tx[Main].wset["tree0"] = {}
    /\ counter = 1

----------------------------------------------------------------------------
(* One caller using a CounterTree in every insert-style way, one call      *)
(* after the other: tree.insert, batch.insert on a batch it holds (with    *)
(* direct inserts between the buffering and apply_batch), and inserts      *)
(* through the view of a transaction.  issued lists the keys the calls     *)
(* used, in the order the calls were made.                                 *)

MaxKeys == 4

\* the closure: two inserts under generated keys, then Ok or Abort
SeqProg ==
    <<Call("kg_insert_inc", T2, 0, 0), Call("kg_insert_inc", T2, 0, 0), ReturnEither(7)>>

\* tree.insert(&value)
SeqInsert ==
    /\ pc[Main] \in {"idle", "batch"}
    /\ counter < MaxKeys
    /\ LET r == KGTreeInsert(store[T2], counter, T2, InsertVal)
       IN  /\ store' = [store EXCEPT ![T2] = r.map]
           /\ counter' = r.counter
           /\ issued' = Append(issued, r.ret[1])
           /\ last' = [op |-> "insert", ret |-> r.ret]
    /\ UNCHANGED <<pc, tx, kg, nops, commits, bmap, vmap>>

\* let mut batch = tree.new_batch()
SeqNewBatch ==
    /\ pc[Main] = "idle"
    /\ pc' = [pc EXCEPT ![Main] = "batch"]
    /\ kg' = [kg EXCEPT ![Main] = NoKg]
    /\ last' = [op |-> "new_batch"]
    /\ UNCHANGED <<store, counter, tx, issued, nops, commits, bmap, vmap>>

\* batch.insert(&value)
SeqBatchInsert ==
    /\ pc[Main] = "batch"
    /\ counter < MaxKeys
    /\ LET r == KGBatchInsert(kg[Main].batch, counter, T2, BatchVal)
       IN  /\ counter' = r.counter
           /\ issued' = Append(issued, r.key)
           /\ kg' = [kg EXCEPT ![Main].batch = r.batch,
                               ![Main].log = Append(@, <<r.key, Some(BatchVal)>>)]
           /\ last' = [op |-> "batch_insert", key |-> r.key]
    /\ UNCHANGED <<store, pc, tx, nops, commits, bmap, vmap>>

\* tree.apply_batch(batch)
SeqApplyBatch ==
    /\ pc[Main] = "batch"
    /\ store' = [store EXCEPT ![T2] = TreeApplyBatch(@, kg[Main].batch)]
    /\ pc' = [pc EXCEPT ![Main] = "idle"]
    /\ kg' = [kg EXCEPT ![Main] = NoKg]
    /\ last' = [op |-> "apply_batch", log |-> kg[Main].log]
    /\ UNCHANGED <<counter, tx, issued, nops, commits, bmap, vmap>>

\* the batch goes out of scope without being applied
SeqDropBatch ==
    /\ pc[Main] = "batch"
    /\ pc' = [pc EXCEPT ![Main] = "idle"]
    /\ kg' = [kg EXCEPT ![Main] = NoKg]
    /\ last' = [op |-> "drop_batch", log |-> kg[Main].log]
    /\ UNCHANGED <<store, counter, tx, issued, nops, commits, bmap, vmap>>

\* tree.transaction(f)
SeqTransaction ==
    /\ counter + 2 <= MaxKeys
    /\ TxBegin(Main, SeqProg)
    /\ last' = [op |-> "transaction"]
    /\ UNCHANGED <<nops, commits>>

\* view.insert(&value) inside the closure
SeqViewInsert ==
    /\ TxStep(Main)
    /\ last' = [op |-> "view_insert", key |-> counter]
    /\ UNCHANGED <<nops, commits>>

SeqCommit ==
    /\ TxCommit(Main)
    /\ last' = [op |-> "committed", keys |-> {Deserialize(kb) : kb \in DOMAIN tx[Main].wset[T2]}]
    /\ UNCHANGED <<nops, commits>>

SeqAbort ==
    /\ TxAbort(Main)
    /\ last' = [op |-> "aborted", keys |-> {Deserialize(kb) : kb \in DOMAIN tx[Main].wset[T2]}]
    /\ UNCHANGED <<nops, commits>>

NextSeq ==
    \/ SeqInsert
    \/ SeqNewBatch
    \/ SeqBatchInsert
    \/ SeqApplyBatch
    \/ SeqDropBatch
    \/ SeqTransaction
    \/ SeqViewInsert
    \/ SeqCommit
    \/ SeqAbort

SpecSeq == InitSpec /\ [][NextSeq]_vars

\* the typed keys tree2 holds
StoredKeys(st) == {Deserialize(kb) : kb \in DOMAIN st[T2]}

\* C18: direct, batch and transactional generated-key inserts on one
\* KeyGeneratingTree draw from the one generator when the call is made (a
\* batch insert when the entry is buffered, not when the batch is applied):
\* in a sequential run the keys used are strictly increasing in the order of
\* the calls, the n inserts buffered in a batch carry n distinct keys, and
\* apply_batch creates n entries, none superseding another.
C18_KeysInIssueOrder ==
    /\ [](/\ \A i, j \in 1..Len(issued) : i < j => issued[i] < issued[j]
          /\ Len(issued) = counter
          /\ \A i, j \in 1..Len(kg[Main].log) :
                i # j => kg[Main].log[i][1] # kg[Main].log[j][1])
    /\ [][/\ last'.op \in {"insert", "batch_insert", "view_insert"} =>
                /\ counter' = counter + 1
                /\ issued' = Append(issued, counter)
          /\ last'.op = "insert" => last'.ret[1] = counter
          /\ last'.op = "batch_insert" =>
                /\ kg'[Main].log = Append(kg[Main].log, <<counter, Some(BatchVal)>>)
                /\ store' = store
          /\ last'.op = "view_insert" =>
                /\ Serialize(counter, KeyWidth(T2)) \in DOMAIN tx'[Main].wset[T2]
                /\ store' = store
          /\ last'.op = "apply_batch" =>
                /\ counter' = counter /\ issued' = issued
                /\ StoredKeys(store) \cap BatchKeysTyped(last'.log) = {}
                /\ StoredKeys(store') = StoredKeys(store) \cup BatchKeysTyped(last'.log)
                /\ Cardinality(StoredKeys(store')) =
                        Cardinality(StoredKeys(store)) + Len(last'.log)
                /\ \A k \in BatchKeysTyped(last'.log) :
                        TreeGet(store'[T2], T2, k) = Some(BatchVal)
         ]_vars

\* a batch of two inserts, made around a direct insert and after another
\* direct insert, has been applied: it carried keys 1 and 3
W18_BatchAroundInsert ==
    /\ last.op = "apply_batch"
    /\ last.log = <<<<1, Some(BatchVal)>>, <<3, Some(BatchVal)>>>>
    /\ issued = <<0, 1, 2, 3>>
    /\ StoredKeys(store) = {0, 1, 2, 3}

----------------------------------------------------------------------------
(* Threads running transactions over (tree0, tree2) whose closure draws    *)
(* two keys, or filling a batch that they apply or drop.  last is the      *)
(* ledger of the keys drawn: per thread the keys of the invocation that is *)
(* running (now) and those of the invocations of its transaction that were *)
(* discarded (lost), and the keys of every discarded invocation and of     *)
(* every dropped batch so far (gone).                                      *)

MaxRuns == 2

\* the closure: x = tree0.get(X); tree0.insert(X, x + 1); two inserts of
\* x + 1 into tree2 under generated keys; then Ok or Abort
GapProg ==
    <<Call("get", T0, X, 0), Call("insert_inc", T0, X, 0),
      Call("kg_insert_inc", T2, 0, 0), Call("kg_insert_inc", T2, 0, 0), ReturnEither(7)>>

\* generated inserts per invocation of the closure
DrawsPerCall == Cardinality({i \in 1..Len(GapProg) : GapProg[i].op = "kg_insert_inc"})

SeqSet(s) == {s[i] : i \in 1..Len(s)}

InitGaps ==
    /\ store = InitStore
    /\ counter = CounterInitialize(InitStore[T2])
    /\ InitThreads
    /\ last = [now |-> [p \in Procs |-> <<>>], lost |-> [p \in Procs |-> {}], gone |-> {}]
    /\ bmap = <<>>
    /\ vmap = <<>>

\* calls started by all threads
Runs == Cardinality({pn \in Procs \X (1..MaxRuns) : pn[2] <= nops[pn[1]]})

CanRun(p) == pc[p] = "idle" /\ Runs < MaxRuns

\* (&tree0, &tree2).transaction(f)
GStart(p) ==
    /\ CanRun(p)
    /\ TxBegin(p, GapProg)
    /\ Called(p)
    /\ last' = [last EXCEPT !.now[p] = <<>>, !.lost[p] = {}]
    /\ UNCHANGED commits

\* the closure makes its next call
GStep(p) ==
    /\ TxStep(p)
    /\ last' = [last EXCEPT !.now[p] = @ \o SubSeq(issued', Len(issued) + 1, Len(issued'))]
    /\ UNCHANGED <<nops, commits>>

GCommit(p) ==
    /\ TxCommit(p)
    /\ commits' = commits + 1
    /\ UNCHANGED <<nops, last>>

GRetry(p) ==
    /\ TxRetry(p)
    /\ last' = [last EXCEPT !.now[p] = <<>>,
                            !.lost[p] = @ \cup SeqSet(last.now[p]),
                            !.gone = @ \cup SeqSet(last.now[p])]
    /\ UNCHANGED <<nops, commits>>

GAbort(p) ==
    /\ TxAbort(p)
    /\ last' = [last EXCEPT !.now[p] = <<>>,
                            !.lost[p] = @ \cup SeqSet(last.now[p]),
                            !.gone = @ \cup SeqSet(last.now[p])]
    /\ UNCHANGED <<nops, commits>>

\* let mut batch = tree2.new_batch()
GNewBatch(p) ==
    /\ CanRun(p)
    /\ pc' = [pc EXCEPT ![p] = "batch"]
    /\ kg' = [kg EXCEPT ![p] = NoKg]
    /\ Called(p)
    /\ UNCHANGED <<store, counter, tx, issued, commits, last, bmap, vmap>>

\* tree2.apply_batch(batch)
GApplyBatch(p) ==
    /\ pc[p] = "batch"
    /\ LET st == [store EXCEPT ![T2] = TreeApplyBatch(@, kg[p].batch)]
       IN  /\ store' = st
           /\ tx' = MarkDirty(tx, p, Changed(store, st))
    /\ pc' = [pc EXCEPT ![p] = "idle"]
    /\ kg' = [kg EXCEPT ![p] = NoKg]
    /\ UNCHANGED <<counter, issued, nops, commits, last, bmap, vmap>>

\* the batch goes out of scope without being applied
GDropBatch(p) ==
    /\ pc[p] = "batch"
    /\ pc' = [pc EXCEPT ![p] = "idle"]
    /\ kg' = [kg EXCEPT ![p] = NoKg]
    /\ last' = [last EXCEPT !.gone = @ \cup BatchKeysTyped(kg[p].log)]
    /\ UNCHANGED <<store, counter, tx, issued, nops, commits, bmap, vmap>>

NextGaps ==
    \/ \E p \in Procs : GStart(p)
    \/ \E p \in Procs : GStep(p)
    \/ \E p \in Procs : GCommit(p)
    \/ \E p \in Procs : GRetry(p)
    \/ \E p \in Procs : GAbort(p)
    \/ \E p \in Procs : GNewBatch(p)
    \/ \E p \in Procs : KGBatchIns(p)
    \/ \E p \in Procs : GApplyBatch(p)
    \/ \E p \in Procs : GDropBatch(p)

SpecGaps == InitGaps /\ [][NextGaps]_vars

\* transaction() of thread p returns or invokes the closure again
ReturnStep(p) == AtReturn(p) /\ (pc'[p] = "idle" \/ tx'[p].calls # tx[p].calls)

\* C19: the generator is never rolled back.  The keys drawn in an invocation
\* of the closure that is aborted or retried, and the keys buffered in a
\* batch that is never applied, stay consumed: a closure that makes m
\* generated inserts and is invoked a times has drawn a * m keys, the entries
\* a commit adds carry the keys of the last invocation only, and every key
\* drawn later is greater than every key of a discarded invocation or batch,
\* so the keys stored are increasing with gaps.
C19_NeverRolledBack ==
    /\ [](/\ Len(issued) = counter
          /\ \A i, j \in 1..Len(issued) : i < j => issued[i] < issued[j]
          /\ StoredKeys(store) \cap last.gone = {}
          /\ \A k \in last.gone : k < counter
          /\ \A p \in Procs :
                (pc[p] = "tx" /\ AtReturn(p)) =>
                    /\ Len(last.now[p]) = DrawsPerCall
                    /\ SeqSet(last.now[p]) \cap last.lost[p] = {}
                    /\ Len(last.now[p]) + Cardinality(last.lost[p])
                            = tx[p].calls * DrawsPerCall)
    /\ [][/\ counter' >= counter
          /\ counter' > counter => \A k \in last.gone : k < counter
          /\ \A p \in Procs :
                ReturnStep(p) =>
                    /\ counter' = counter /\ issued' = issued
                    /\ IF store' # store
                       THEN StoredKeys(store') \ StoredKeys(store) = SeqSet(last.now[p])
                       ELSE /\ last'.gone = last.gone \cup SeqSet(last.now[p])
                            /\ StoredKeys(store') \cap SeqSet(last.now[p]) = {}
          /\ \A p \in Procs :
                (pc[p] = "batch" /\ pc'[p] = "idle") => counter' = counter
         ]_vars

\* a transaction committed on its second invocation, after the other thread's
\* commit made the first one fail: keys 0 and 1 went with the first
\* invocation, the entries carry 4 and 5
W19_GapAfterRetry ==
    /\ commits = 2
    /\ counter = 6
    /\ \E p \in Procs : last.lost[p] = {0, 1}
    /\ StoredKeys(store) = {2, 3, 4, 5}

====
